---- MODULE Spec2Model ----
(***************************************************************************)
(* Nonprofit 990 processor: the lookup-and-extraction pipeline of          *)
(* src/main.py (HTTP cloud function, process_ein_list) and src/app.py      *)
(* (desktop application, App.process_data_worker).                         *)
(*                                                                         *)
(* Python values are modelled as follows.  A str is a TLA+ string, read    *)
(* with Len, SubSeq and \o.  A dict is the sequence of its <<key, value>>  *)
(* pairs in insertion order.  None and exceptions are tagged records.      *)
(***************************************************************************)
EXTENDS Integers, Sequences, FiniteSets, TLC

VARIABLES
  variant,             \* "main" (src/main.py) or "app" (src/app.py)
  request,             \* main: the inbound HTTP request
  secret,              \* main: CACHED_SECRET and the state of Secret Manager
  table,               \* the CSV input as pandas reads it
  pc,                  \* position of process_ein_list / process_data_worker
  futures,             \* future_to_row: one entry per submitted row
  all_extracted_data,  \* the list of records collected by the coordinator
  processed_count,     \* app: number of futures the coordinator has consumed
  progress_queue,      \* app: self.progress_queue, a FIFO of messages
  response,            \* the terminal outcome of the batch
  final_df,            \* the output table
  xml_content,         \* the argument of a direct parse_xml_data call
  extracted,           \* the value that call returned
  gui                  \* app: the widgets of App

vars == <<variant, request, secret, table, pc, futures, all_extracted_data,
          processed_count, progress_queue, response, final_df,
          xml_content, extracted, gui>>

(***************************************************************************)
(* Strings                                                                 *)
(***************************************************************************)

\* The printable ASCII characters in code-point order: 32 to 95, and 97 to 126
\* (the grave accent, 96, cannot be written in a string of this language).
AsciiLow == " !\"#$%&'()*+,-./0123456789:;<=>?@ABCDEFGHIJKLMNOPQRSTUVWXYZ[\\]^_"
AsciiHigh == "abcdefghijklmnopqrstuvwxyz{|}~"

CharAt(s, i) == SubSeq(s, i, i)

\* ord(c) of a printable ASCII character.
Ord(c) ==
  IF \E i \in 1..Len(AsciiLow) : CharAt(AsciiLow, i) = c
  THEN 31 + (CHOOSE i \in 1..Len(AsciiLow) : CharAt(AsciiLow, i) = c)
  ELSE 96 + (CHOOSE i \in 1..Len(AsciiHigh) : CharAt(AsciiHigh, i) = c)

\* s.startswith(p)
StartsWith(s, p) == Len(p) <= Len(s) /\ SubSeq(s, 1, Len(p)) = p

\* Python compares str values by code point, a proper prefix being smaller.
RECURSIVE StrLess(_, _)
StrLess(a, b) ==
  IF Len(b) = 0 THEN FALSE
  ELSE IF Len(a) = 0 THEN TRUE
  ELSE IF CharAt(a, 1) = CharAt(b, 1)
       THEN StrLess(SubSeq(a, 2, Len(a)), SubSeq(b, 2, Len(b)))
       ELSE Ord(CharAt(a, 1)) < Ord(CharAt(b, 1))

\* Insert x into the sorted sequence s, after the elements not greater than x.
RECURSIVE InsertSorted(_, _)
InsertSorted(s, x) ==
  IF s = <<>> THEN <<x>>
  ELSE IF StrLess(x, Head(s)) THEN <<x>> \o s
  ELSE <<Head(s)>> \o InsertSorted(Tail(s), x)

\* sorted(list of str)
RECURSIVE sorted(_)
sorted(s) ==
  IF s = <<>> THEN <<>>
  ELSE InsertSorted(sorted(SubSeq(s, 1, Len(s) - 1)), s[Len(s)])

IsSpace(c) == c \in {" ", "\t", "\n", "\r"}

\* s.lstrip(), s.rstrip() and s.strip()
RECURSIVE LStrip(_)
LStrip(s) ==
  IF Len(s) > 0 /\ IsSpace(CharAt(s, 1)) THEN LStrip(SubSeq(s, 2, Len(s))) ELSE s

RECURSIVE RStrip(_)
RStrip(s) ==
  IF Len(s) > 0 /\ IsSpace(CharAt(s, Len(s)))
  THEN RStrip(SubSeq(s, 1, Len(s) - 1)) ELSE s

strip(s) == RStrip(LStrip(s))

\* Index of the first occurrence of sep in s at or after position i, 0 if none.
RECURSIVE FindFrom(_, _, _)
FindFrom(s, sep, i) ==
  IF i + Len(sep) - 1 > Len(s) THEN 0
  ELSE IF SubSeq(s, i, i + Len(sep) - 1) = sep THEN i
  ELSE FindFrom(s, sep, i + 1)

\* sub in s
Contains(s, sub) == FindFrom(s, sub, 1) > 0

\* s.split(sep): the list of the pieces of s between occurrences of sep.
RECURSIVE split(_, _)
split(s, sep) ==
  LET i == FindFrom(s, sep, 1)
  IN IF i = 0 THEN <<s>>
     ELSE <<SubSeq(s, 1, i - 1)>> \o split(SubSeq(s, i + Len(sep), Len(s)), sep)

\* s.replace(old, "")
RECURSIVE remove(_, _)
remove(s, old) ==
  LET i == FindFrom(s, old, 1)
  IN IF i = 0 THEN s
     ELSE SubSeq(s, 1, i - 1) \o remove(SubSeq(s, i + Len(old), Len(s)), old)

\* sep.join(parts)
RECURSIVE join(_, _)
join(sep, parts) ==
  IF parts = <<>> THEN ""
  ELSE IF Len(parts) = 1 THEN parts[1]
  ELSE parts[1] \o sep \o join(sep, Tail(parts))

\* The elements of s that satisfy the truth test of Python (a non-empty str).
RECURSIVE FilterNonEmpty(_)
FilterNonEmpty(s) ==
  IF s = <<>> THEN <<>>
  ELSE (IF Head(s) = "" THEN <<>> ELSE <<Head(s)>>) \o FilterNonEmpty(Tail(s))

(***************************************************************************)
(* Python values                                                           *)
(***************************************************************************)

\* A Python value: None, a dict (its items in insertion order) or a str.
None == [kind |-> "None", items |-> <<>>, str |-> ""]
Dict(items) == [kind |-> "dict", items |-> items, str |-> ""]
Str(s) == [kind |-> "str", items |-> <<>>, str |-> s]

\* The truth value of a Python value (if x:).
Truthy(x) ==
  CASE x.kind = "None" -> FALSE
    [] x.kind = "dict" -> x.items # <<>>
    [] x.kind = "str"  -> x.str # ""

HasKey(items, k) == \E i \in 1..Len(items) : items[i][1] = k

\* d[k] = v: an existing key keeps its position, a new key goes last.
DictSet(items, k, v) ==
  IF HasKey(items, k)
  THEN [i \in 1..Len(items) |-> IF items[i][1] = k THEN <<k, v>> ELSE items[i]]
  ELSE Append(items, <<k, v>>)

\* list(d.keys())
Keys(items) == [i \in 1..Len(items) |-> items[i][1]]

\* The value bound to k (only asked for a key that is present).
DictGet(items, k) == items[CHOOSE i \in 1..Len(items) : items[i][1] = k][2]


(***************************************************************************)
(* XML documents and XPath, as lxml evaluates them                         *)
(***************************************************************************)

\* The namespace map handed to every xpath call.
ns == [irs |-> "http://www.irs.gov/efile"]

\* An element: its namespace URI, local name, text (<<>> for None) and children.
El(uri, tag, text, children) ==
  [uri |-> uri, tag |-> tag, text |-> text, children |-> children]

\* The element a reference (the child indices from the root) leads to.
RECURSIVE NodeAt(_, _)
NodeAt(node, ref) ==
  IF ref = <<>> THEN node ELSE NodeAt(node.children[Head(ref)], Tail(ref))

\* The references of a node and of its descendants, in document order.
RECURSIVE AllRefs(_, _)
RECURSIVE ChildRefs(_, _, _)
AllRefs(node, ref) == <<ref>> \o ChildRefs(node, ref, 1)
ChildRefs(node, ref, i) ==
  IF i > Len(node.children) THEN <<>>
  ELSE AllRefs(node.children[i], Append(ref, i)) \o ChildRefs(node, ref, i + 1)

IsPrefix(p, s) == Len(p) <= Len(s) /\ SubSeq(s, 1, Len(p)) = p

\* One location step "prefix:name" or "name" (no prefix: no namespace).
ParseStep(s) ==
  LET i == FindFrom(s, ":", 1)
  IN IF i = 0 THEN [uri |-> "", name |-> s]
     ELSE [uri |-> ns[SubSeq(s, 1, i - 1)], name |-> SubSeq(s, i + 1, Len(s))]

\* The paths of the source are ".//step/step..." (any descendant of the context
\* node, then children) or "./step/step..." (children of the context node).
ParsePath(path) ==
  LET deep == StartsWith(path, ".//")
      body == IF deep THEN SubSeq(path, 4, Len(path)) ELSE SubSeq(path, 3, Len(path))
      names == split(body, "/")
  IN [deep |-> deep, steps |-> [i \in 1..Len(names) |-> ParseStep(names[i])]]

\* The elements of s at the indices in idx, in the order of s.
Pick(s, idx) ==
  [j \in 1..Cardinality(idx) |->
     s[CHOOSE i \in idx : Cardinality({m \in idx : m < i}) = j - 1]]

\* The subsequence of refs whose parent is in ctx and whose element matches step.
SelectChildren(root, refs, ctx, step) ==
  Pick(refs, {i \in 1..Len(refs) :
                /\ refs[i] # <<>>
                /\ SubSeq(refs[i], 1, Len(refs[i]) - 1) \in ctx
                /\ NodeAt(root, refs[i]).uri = step.uri
                /\ NodeAt(root, refs[i]).tag = step.name})

Range(s) == {s[i] : i \in 1..Len(s)}

RECURSIVE ApplySteps(_, _, _, _)
ApplySteps(root, refs, ctx, steps) ==
  IF steps = <<>> THEN ctx
  ELSE ApplySteps(root, refs,
                  SelectChildren(root, refs, Range(ctx), Head(steps)),
                  Tail(steps))

\* context_node.xpath(path, namespaces=ns): the matching elements (as references
\* into root) in document order.
xpath(root, context, path) ==
  LET p == ParsePath(path)
      refs == AllRefs(root, <<>>)
      start == IF p.deep
               THEN AllRefs(NodeAt(root, context), context)
               ELSE <<context>>
  IN ApplySteps(root, refs, start, p.steps)

\* get_text of parse_xml_data: the stripped text of the first match, else "".
get_text(root, path, context_node) ==
  LET result == xpath(root, context_node, path)
  IN IF result # <<>> /\ NodeAt(root, result[1]).text # <<>>
        /\ NodeAt(root, result[1]).text[1] # ""
     THEN strip(NodeAt(root, result[1]).text[1])
     ELSE ""

(***************************************************************************)
(* The field schema                                                        *)
(***************************************************************************)

field_mappings_main == <<
    [name |-> "Ein", is_list |-> FALSE, paths |-> <<".//irs:Filer/irs:EIN">>],
    [name |-> "OrganizationName", is_list |-> FALSE, paths |-> <<".//irs:Filer/irs:BusinessName/irs:BusinessNameLine1Txt">>],
    [name |-> "WebsiteAddressTxt", is_list |-> FALSE, paths |-> <<".//irs:IRS990/irs:WebsiteAddressTxt">>],
    [name |-> "MissionDesc", is_list |-> FALSE, paths |-> <<".//irs:IRS990/irs:MissionDesc">>],
    [name |-> "TaxYr", is_list |-> FALSE, paths |-> <<".//irs:ReturnHeader/irs:TaxYr">>],
    [name |-> "VotingMembersGoverningBodyCnt", is_list |-> FALSE, paths |-> <<".//irs:IRS990/irs:VotingMembersGoverningBodyCnt">>],
    [name |-> "VotingMembersIndependentCnt", is_list |-> FALSE, paths |-> <<".//irs:IRS990/irs:VotingMembersIndependentCnt">>],
    [name |-> "FederatedCampaignsAmt", is_list |-> FALSE, paths |-> <<".//irs:IRS990/irs:FederatedCampaignsAmt">>],
    [name |-> "MembershipDuesAmt", is_list |-> FALSE, paths |-> <<".//irs:IRS990/irs:MembershipDuesAmt">>],
    [name |-> "FundraisingEventsAmt", is_list |-> FALSE, paths |-> <<".//irs:IRS990/irs:FundraisingEventsAmt">>],
    [name |-> "RelatedOrganizationsAmt", is_list |-> FALSE, paths |-> <<".//irs:IRS990/irs:RelatedOrganizationsAmt">>],
    [name |-> "GovernmentGrantsAmt", is_list |-> FALSE, paths |-> <<".//irs:IRS990/irs:GovernmentGrantsAmt">>],
    [name |-> "AllOtherContributionsAmt", is_list |-> FALSE, paths |-> <<".//irs:IRS990/irs:AllOtherContributionsAmt">>],
    [name |-> "NonCashContributionsAmt", is_list |-> FALSE, paths |-> <<".//irs:IRS990/irs:NoncashContributionsAmt">>],
    [name |-> "TotalContributionsAmt", is_list |-> FALSE, paths |-> <<".//irs:IRS990/irs:TotalContributionsAmt">>],
    [name |-> "TotalProgramServiceRevenueAmt", is_list |-> FALSE, paths |-> <<".//irs:IRS990/irs:TotalProgramServiceRevenueAmt">>],
    [name |-> "CYInvestmentIncomeAmt", is_list |-> FALSE, paths |-> <<".//irs:IRS990/irs:CYInvestmentIncomeAmt">>],
    [name |-> "IncmFromInvestBondProceedsGrp", is_list |-> FALSE, paths |-> <<".//irs:IRS990/irs:IncmFromInvestBondProceedsGrp/irs:TotalRevenueColumnAmt">>],
    [name |-> "RoyaltiesAmt", is_list |-> FALSE, paths |-> <<".//irs:IRS990/irs:RoyaltiesRevenueGrp/irs:TotalRevenueColumnAmt">>],
    [name |-> "NetRentalIncomeAmt", is_list |-> TRUE, paths |-> <<".//irs:IRS990/irs:RentalIncomeOrLossGrp/irs:RealAmt", ".//irs:IRS990/irs:RentalIncomeOrLossGrp/irs:PersonalAmt">>],
    [name |-> "NetGainOrLossInvestmentsGrp", is_list |-> FALSE, paths |-> <<".//irs:IRS990/irs:NetGainOrLossInvestmentsGrp/irs:TotalRevenueColumnAmt">>],
    [name |-> "NetIncmFromFundraisingEvtGrp", is_list |-> FALSE, paths |-> <<".//irs:IRS990/irs:NetIncmFromFundraisingEvtGrp/irs:TotalRevenueColumnAmt">>],
    [name |-> "NetIncomeFromGamingGrp", is_list |-> FALSE, paths |-> <<".//irs:IRS990/irs:NetIncomeFromGamingGrp/irs:TotalRevenueColumnAmt">>],
    [name |-> "NetInventorySalesAmt", is_list |-> FALSE, paths |-> <<".//irs:IRS990/irs:NetIncomeOrLossGrp/irs:TotalRevenueColumnAmt">>],
    [name |-> "OtherRevenueTotalAmt", is_list |-> FALSE, paths |-> <<".//irs:IRS990/irs:OtherRevenueTotalAmt">>],
    [name |-> "TotalRevenue", is_list |-> FALSE, paths |-> <<".//irs:IRS990/irs:TotalRevenueGrp/irs:TotalRevenueColumnAmt">>],
    [name |-> "GrantsToDomesticOrgsGrp", is_list |-> FALSE, paths |-> <<".//irs:IRS990/irs:GrantsToDomesticOrgsGrp/irs:TotalAmt">>],
    [name |-> "GrantsToDomesticIndividualsGrp", is_list |-> FALSE, paths |-> <<".//irs:IRS990/irs:GrantsToDomesticIndividualsGrp/irs:TotalAmt">>],
    [name |-> "ForeignGrantsGrp", is_list |-> FALSE, paths |-> <<".//irs:IRS990/irs:ForeignGrantsGrp/irs:TotalAmt">>],
    [name |-> "BenefitsToMembersGrp", is_list |-> FALSE, paths |-> <<".//irs:IRS990/irs:BenefitsToMembersGrp/irs:TotalAmt">>],
    [name |-> "CompCurrentOfcrDirectorsGrp", is_list |-> FALSE, paths |-> <<".//irs:IRS990/irs:CompCurrentOfcrDirectorsGrp/irs:TotalAmt">>],
    [name |-> "CompDisqualPersonsGrp", is_list |-> FALSE, paths |-> <<".//irs:IRS990/irs:CompDisqualPersonsGrp/irs:TotalAmt">>],
    [name |-> "OtherSalariesAndWagesGrp", is_list |-> FALSE, paths |-> <<".//irs:IRS990/irs:OtherSalariesAndWagesGrp/irs:TotalAmt">>],
    [name |-> "PensionPlanContributionsGrp", is_list |-> FALSE, paths |-> <<".//irs:IRS990/irs:PensionPlanContributionsGrp/irs:TotalAmt">>],
    [name |-> "OtherEmployeeBenefitsGrp", is_list |-> FALSE, paths |-> <<".//irs:IRS990/irs:OtherEmployeeBenefitsGrp/irs:TotalAmt">>],
    [name |-> "PayrollTaxesGrp", is_list |-> FALSE, paths |-> <<".//irs:IRS990/irs:PayrollTaxesGrp/irs:TotalAmt">>],
    [name |-> "FeesForServicesManagementGrp", is_list |-> FALSE, paths |-> <<".//irs:IRS990/irs:FeesForServicesManagementGrp/irs:TotalAmt">>],
    [name |-> "FeesForServicesLegalGrp", is_list |-> FALSE, paths |-> <<".//irs:IRS990/irs:FeesForServicesLegalGrp/irs:TotalAmt">>],
    [name |-> "FeesForServicesAccountingGrp", is_list |-> FALSE, paths |-> <<".//irs:IRS990/irs:FeesForServicesAccountingGrp/irs:TotalAmt">>],
    [name |-> "FeesForServicesLobbyingGrp", is_list |-> FALSE, paths |-> <<".//irs:IRS990/irs:FeesForServicesLobbyingGrp/irs:TotalAmt">>],
    [name |-> "FeesForServicesProfFundraising", is_list |-> FALSE, paths |-> <<".//irs:IRS990/irs:FeesForServicesProfFundraising/irs:TotalAmt">>],
    [name |-> "FeesForSrvcInvstMgmntFeesGrp", is_list |-> FALSE, paths |-> <<".//irs:IRS990/irs:FeesForSrvcInvstMgmntFeesGrp/irs:TotalAmt">>],
    [name |-> "FeesForServicesOtherGrp", is_list |-> FALSE, paths |-> <<".//irs:IRS990/irs:FeesForServicesOtherGrp/irs:TotalAmt">>],
    [name |-> "AdvertisingGrp", is_list |-> FALSE, paths |-> <<".//irs:IRS990/irs:AdvertisingGrp/irs:TotalAmt">>],
    [name |-> "OfficeExpensesGrp", is_list |-> FALSE, paths |-> <<".//irs:IRS990/irs:OfficeExpensesGrp/irs:TotalAmt">>],
    [name |-> "InformationTechnologyGrp", is_list |-> FALSE, paths |-> <<".//irs:IRS990/irs:InformationTechnologyGrp/irs:TotalAmt">>],
    [name |-> "RoyaltiesGrp", is_list |-> FALSE, paths |-> <<".//irs:IRS990/irs:RoyaltiesGrp/irs:TotalAmt">>],
    [name |-> "OccupancyGrp", is_list |-> FALSE, paths |-> <<".//irs:IRS990/irs:OccupancyGrp/irs:TotalAmt">>],
    [name |-> "TravelGrp", is_list |-> FALSE, paths |-> <<".//irs:IRS990/irs:TravelGrp/irs:TotalAmt">>],
    [name |-> "PymtTravelEntrtnmntPubOfclGrp", is_list |-> FALSE, paths |-> <<".//irs:IRS990/irs:PymtTravelEntrtnmntPubOfclGrp/irs:TotalAmt">>],
    [name |-> "ConferencesMeetingsGrp", is_list |-> FALSE, paths |-> <<".//irs:IRS990/irs:ConferencesMeetingsGrp/irs:TotalAmt">>],
    [name |-> "InterestGrp", is_list |-> FALSE, paths |-> <<".//irs:IRS990/irs:InterestGrp/irs:TotalAmt">>],
    [name |-> "PaymentsToAffiliatesGrp", is_list |-> FALSE, paths |-> <<".//irs:IRS990/irs:PaymentsToAffiliatesGrp/irs:TotalAmt">>],
    [name |-> "DepreciationDepletionGrp", is_list |-> FALSE, paths |-> <<".//irs:IRS990/irs:DepreciationDepletionGrp/irs:TotalAmt">>],
    [name |-> "InsuranceGrp", is_list |-> FALSE, paths |-> <<".//irs:IRS990/irs:InsuranceGrp/irs:TotalAmt">>],
    [name |-> "TotalFunctionalExpenseAmt", is_list |-> FALSE, paths |-> <<".//irs:IRS990/irs:TotalFunctionalExpensesGrp/irs:TotalAmt">>],
    [name |-> "TotalProgramServiceExpensesAmt", is_list |-> FALSE, paths |-> <<".//irs:IRS990/irs:TotalProgramServiceExpensesAmt">>],
    [name |-> "ManagementAndGeneralAmt", is_list |-> FALSE, paths |-> <<".//irs:IRS990/irs:TotalFunctionalExpensesGrp/irs:ManagementAndGeneralAmt">>],
    [name |-> "FundraisingAmt", is_list |-> FALSE, paths |-> <<".//irs:IRS990/irs:TotalFunctionalExpensesGrp/irs:FundraisingAmt">>],
    [name |-> "CashNonInterestBearingGrp", is_list |-> FALSE, paths |-> <<".//irs:IRS990/irs:CashNonInterestBearingGrp/irs:EOYAmt">>],
    [name |-> "SavingsAndTempCashInvstGrp", is_list |-> FALSE, paths |-> <<".//irs:IRS990/irs:SavingsAndTempCashInvstGrp/irs:EOYAmt">>],
    [name |-> "PledgesAndGrantsReceivableGrp", is_list |-> FALSE, paths |-> <<".//irs:IRS990/irs:PledgesAndGrantsReceivableGrp/irs:EOYAmt">>],
    [name |-> "AccountsReceivableGrp", is_list |-> FALSE, paths |-> <<".//irs:IRS990/irs:AccountsReceivableGrp/irs:EOYAmt">>],
    [name |-> "ReceivablesFromOfficersEtcGrp", is_list |-> FALSE, paths |-> <<".//irs:IRS990/irs:ReceivablesFromOfficersEtcGrp/irs:EOYAmt">>],
    [name |-> "RcvblFromDisqualifiedPrsnGrp", is_list |-> FALSE, paths |-> <<".//irs:IRS990/irs:RcvblFromDisqualifiedPrsnGrp/irs:EOYAmt">>],
    [name |-> "OthNotesLoansReceivableNetGrp", is_list |-> FALSE, paths |-> <<".//irs:IRS990/irs:OthNotesLoansReceivableNetGrp/irs:EOYAmt">>],
    [name |-> "InventoriesForSaleOrUseGrp", is_list |-> FALSE, paths |-> <<".//irs:IRS990/irs:InventoriesForSaleOrUseGrp/irs:EOYAmt">>],
    [name |-> "PrepaidExpensesDefrdChargesGrp", is_list |-> FALSE, paths |-> <<".//irs:IRS990/prepaidExpensesDefrdChargesGrp/irs:EOYAmt">>],
    [name |-> "LandBldgEquipBasisNetGrp", is_list |-> FALSE, paths |-> <<".//irs:IRS990/irs:LandBldgEquipBasisNetGrp/irs:EOYAmt">>],
    [name |-> "InvestmentsPubTradedSecGrp", is_list |-> FALSE, paths |-> <<".//irs:IRS990/irs:InvestmentsPubTradedSecGrp/irs:EOYAmt">>],
    [name |-> "InvestmentsOtherSecuritiesGrp", is_list |-> FALSE, paths |-> <<".//irs:IRS990/irs:InvestmentsOtherSecuritiesGrp/irs:EOYAmt">>],
    [name |-> "InvestmentsProgramRelatedGrp", is_list |-> TRUE, paths |-> <<".//irs:IRS990/irs:InvestmentsProgramRelatedGrp/irs:TotalBookValueProgramRltdAmt", ".//irs:IRS990/irs:InvestmentsProgramRelatedGrp/irs:EOYAmt">>],
    [name |-> "IntangibleAssetsGrp", is_list |-> FALSE, paths |-> <<".//irs:IRS990/irs:IntangibleAssetsGrp/irs:EOYAmt">>],
    [name |-> "OtherAssetsTotalGrp", is_list |-> FALSE, paths |-> <<".//irs:IRS990/irs:OtherAssetsTotalGrp/irs:EOYAmt">>],
    [name |-> "TotalAssetsGrp", is_list |-> FALSE, paths |-> <<".//irs:IRS990/irs:TotalAssetsGrp/irs:EOYAmt">>],
    [name |-> "AccountsPayableAccrExpnssGrp", is_list |-> FALSE, paths |-> <<".//irs:IRS990/irs:AccountsPayableAccrExpnssGrp/irs:EOYAmt">>],
    [name |-> "GrantsPayableGrp", is_list |-> FALSE, paths |-> <<".//irs:IRS990/irs:GrantsPayableGrp/irs:EOYAmt">>],
    [name |-> "DeferredRevenueGrp", is_list |-> FALSE, paths |-> <<".//irs:IRS990/irs:DeferredRevenueGrp/irs:EOYAmt">>],
    [name |-> "TaxExemptBondLiabilitiesGrp", is_list |-> FALSE, paths |-> <<".//irs:IRS990/irs:TaxExemptBondLiabilitiesGrp/irs:EOYAmt">>],
    [name |-> "EscrowAccountLiabilityGrp", is_list |-> FALSE, paths |-> <<".//irs:IRS990/irs:EscrowAccountLiabilityGrp/irs:EOYAmt">>],
    [name |-> "LoansFromOfficersDirectorsGrp", is_list |-> FALSE, paths |-> <<".//irs:IRS990/irs:LoansFromOfficersDirectorsGrp/irs:EOYAmt">>],
    [name |-> "MortgNotesPyblScrdInvstPropGrp", is_list |-> FALSE, paths |-> <<".//irs:IRS990/irs:MortgNotesPyblScrdInvstPropGrp/irs:EOYAmt">>],
    [name |-> "UnsecuredNotesLoansPayableGrp", is_list |-> FALSE, paths |-> <<".//irs:IRS990/irs:UnsecuredNotesLoansPayableGrp/irs:EOYAmt">>],
    [name |-> "OtherLiabilitiesGrp", is_list |-> FALSE, paths |-> <<".//irs:IRS990/irs:OtherLiabilitiesGrp/irs:EOYAmt">>],
    [name |-> "TotalLiabilitiesGrp", is_list |-> FALSE, paths |-> <<".//irs:IRS990/irs:TotalLiabilitiesGrp/irs:EOYAmt">>],
    [name |-> "NoDonorRestrictionNetAssetsGrp", is_list |-> FALSE, paths |-> <<".//irs:IRS990/irs:NoDonorRestrictionNetAssetsGrp/irs:EOYAmt">>],
    [name |-> "DonorRestrictionNetAssetsGrp", is_list |-> FALSE, paths |-> <<".//irs:IRS990/irs:DonorRestrictionNetAssetsGrp/irs:EOYAmt">>],
    [name |-> "TotalNetAssetsFundBalanceGrp", is_list |-> FALSE, paths |-> <<".//irs:IRS990/irs:TotalNetAssetsFundBalanceGrp/irs:EOYAmt">>],
    [name |-> "TotLiabNetAssetsFundBalanceGrp", is_list |-> FALSE, paths |-> <<".//irs:IRS990/irs:TotLiabNetAssetsFundBalanceGrp/irs:EOYAmt">>]
  >>

field_mappings_app == <<
    [name |-> "Ein", is_list |-> FALSE, paths |-> <<".//irs:Filer/irs:EIN">>],
    [name |-> "OrganizationName", is_list |-> FALSE, paths |-> <<".//irs:Filer/irs:BusinessName/irs:BusinessNameLine1Txt">>],
    [name |-> "WebsiteAddressTxt", is_list |-> FALSE, paths |-> <<".//irs:IRS990/irs:WebsiteAddressTxt">>],
    [name |-> "MissionDesc", is_list |-> FALSE, paths |-> <<".//irs:IRS990/irs:MissionDesc">>],
    [name |-> "TaxYr", is_list |-> FALSE, paths |-> <<".//irs:ReturnHeader/irs:TaxYr">>],
    [name |-> "VotingMembersGoverningBodyCnt", is_list |-> FALSE, paths |-> <<".//irs:IRS990/irs:VotingMembersGoverningBodyCnt">>],
    [name |-> "VotingMembersIndependentCnt", is_list |-> FALSE, paths |-> <<".//irs:IRS990/irs:VotingMembersIndependentCnt">>],
    [name |-> "FederatedCampaignsAmt", is_list |-> FALSE, paths |-> <<".//irs:IRS990/irs:FederatedCampaignsAmt">>],
    [name |-> "MembershipDuesAmt", is_list |-> FALSE, paths |-> <<".//irs:IRS990/irs:MembershipDuesAmt">>],
    [name |-> "FundraisingEventsAmt", is_list |-> FALSE, paths |-> <<".//irs:IRS990/irs:FundraisingEventsAmt">>],
    [name |-> "RelatedOrganizationsAmt", is_list |-> FALSE, paths |-> <<".//irs:IRS990/irs:RelatedOrganizationsAmt">>],
    [name |-> "GovernmentGrantsAmt", is_list |-> FALSE, paths |-> <<".//irs:IRS990/irs:GovernmentGrantsAmt">>],
    [name |-> "AllOtherContributionsAmt", is_list |-> FALSE, paths |-> <<".//irs:IRS990/irs:AllOtherContributionsAmt">>],
    [name |-> "NonCashContributionsAmt", is_list |-> FALSE, paths |-> <<".//irs:IRS990/irs:NoncashContributionsAmt">>],
    [name |-> "TotalContributionsAmt", is_list |-> FALSE, paths |-> <<".//irs:IRS990/irs:TotalContributionsAmt">>],
    [name |-> "TotalProgramServiceRevenueAmt", is_list |-> FALSE, paths |-> <<".//irs:IRS990/irs:TotalProgramServiceRevenueAmt">>],
    [name |-> "CYInvestmentIncomeAmt", is_list |-> FALSE, paths |-> <<".//irs:IRS990/irs:CYInvestmentIncomeAmt">>],
    [name |-> "IncmFromInvestBondProceedsGrp", is_list |-> FALSE, paths |-> <<".//irs:IRS990/irs:IncmFromInvestBondProceedsGrp/irs:TotalRevenueColumnAmt">>],
    [name |-> "RoyaltiesAmt", is_list |-> FALSE, paths |-> <<".//irs:IRS990/irs:RoyaltiesRevenueGrp/irs:TotalRevenueColumnAmt">>],
    [name |-> "NetRentalIncomeAmt", is_list |-> TRUE, paths |-> <<".//irs:IRS990/irs:RentalIncomeOrLossGrp/irs:RealAmt", ".//irs:IRS990/irs:RentalIncomeOrLossGrp/irs:PersonalAmt">>],
    [name |-> "NetGainOrLossInvestmentsGrp", is_list |-> FALSE, paths |-> <<".//irs:IRS990/irs:NetGainOrLossInvestmentsGrp/irs:TotalRevenueColumnAmt">>],
    [name |-> "NetIncmFromFundraisingEvtGrp", is_list |-> FALSE, paths |-> <<".//irs:IRS990/irs:NetIncmFromFundraisingEvtGrp/irs:TotalRevenueColumnAmt">>],
    [name |-> "NetIncomeFromGamingGrp", is_list |-> FALSE, paths |-> <<".//irs:IRS990/irs:NetIncomeFromGamingGrp/irs:TotalRevenueColumnAmt">>],
    [name |-> "NetInventorySalesAmt", is_list |-> FALSE, paths |-> <<".//irs:IRS990/irs:NetIncomeOrLossGrp/irs:TotalRevenueColumnAmt">>],
    [name |-> "OtherRevenueTotalAmt", is_list |-> FALSE, paths |-> <<".//irs:IRS990/irs:OtherRevenueTotalAmt">>],
    [name |-> "TotalRevenue", is_list |-> FALSE, paths |-> <<".//irs:IRS990/irs:TotalRevenueGrp/irs:TotalRevenueColumnAmt">>],
    [name |-> "GrantsToDomesticOrgsGrp", is_list |-> FALSE, paths |-> <<".//irs:IRS990/irs:GrantsToDomesticOrgsGrp/irs:TotalAmt">>],
    [name |-> "GrantsToDomesticIndividualsGrp", is_list |-> FALSE, paths |-> <<".//irs:IRS990/irs:GrantsToDomesticIndividualsGrp/irs:TotalAmt">>],
    [name |-> "ForeignGrantsGrp", is_list |-> FALSE, paths |-> <<".//irs:IRS990/irs:ForeignGrantsGrp/irs:TotalAmt">>],
    [name |-> "BenefitsToMembersGrp", is_list |-> FALSE, paths |-> <<".//irs:IRS990/irs:BenefitsToMembersGrp/irs:TotalAmt">>],
    [name |-> "CompCurrentOfcrDirectorsGrp", is_list |-> FALSE, paths |-> <<".//irs:IRS990/irs:CompCurrentOfcrDirectorsGrp/irs:TotalAmt">>],
    [name |-> "CompDisqualPersonsGrp", is_list |-> FALSE, paths |-> <<".//irs:IRS990/irs:CompDisqualPersonsGrp/irs:TotalAmt">>],
    [name |-> "OtherSalariesAndWagesGrp", is_list |-> FALSE, paths |-> <<".//irs:IRS990/irs:OtherSalariesAndWagesGrp/irs:TotalAmt">>],
    [name |-> "PensionPlanContributionsGrp", is_list |-> FALSE, paths |-> <<".//irs:IRS990/irs:PensionPlanContributionsGrp/irs:TotalAmt">>],
    [name |-> "OtherEmployeeBenefitsGrp", is_list |-> FALSE, paths |-> <<".//irs:IRS990/irs:OtherEmployeeBenefitsGrp/irs:TotalAmt">>],
    [name |-> "PayrollTaxesGrp", is_list |-> FALSE, paths |-> <<".//irs:IRS990/irs:PayrollTaxesGrp/irs:TotalAmt">>],
    [name |-> "FeesForServicesManagementGrp", is_list |-> FALSE, paths |-> <<".//irs:IRS990/irs:FeesForServicesManagementGrp/irs:TotalAmt">>],
    [name |-> "FeesForServicesLegalGrp", is_list |-> FALSE, paths |-> <<".//irs:IRS990/irs:FeesForServicesLegalGrp/irs:TotalAmt">>],
    [name |-> "FeesForServicesAccountingGrp", is_list |-> FALSE, paths |-> <<".//irs:IRS990/irs:FeesForServicesAccountingGrp/irs:TotalAmt">>],
    [name |-> "FeesForServicesLobbyingGrp", is_list |-> FALSE, paths |-> <<".//irs:IRS990/irs:FeesForServicesLobbyingGrp/irs:TotalAmt">>],
    [name |-> "FeesForServicesProfFundraising", is_list |-> FALSE, paths |-> <<".//irs:IRS990/irs:FeesForServicesProfFundraising/irs:TotalAmt">>],
    [name |-> "FeesForSrvcInvstMgmntFeesGrp", is_list |-> FALSE, paths |-> <<".//irs:IRS990/irs:FeesForSrvcInvstMgmntFeesGrp/irs:TotalAmt">>],
    [name |-> "FeesForServicesOtherGrp", is_list |-> FALSE, paths |-> <<".//irs:IRS990/irs:FeesForServicesOtherGrp/irs:TotalAmt">>],
    [name |-> "AdvertisingGrp", is_list |-> FALSE, paths |-> <<".//irs:IRS990/irs:AdvertisingGrp/irs:TotalAmt">>],
    [name |-> "OfficeExpensesGrp", is_list |-> FALSE, paths |-> <<".//irs:IRS990/irs:OfficeExpensesGrp/irs:TotalAmt">>],
    [name |-> "InformationTechnologyGrp", is_list |-> FALSE, paths |-> <<".//irs:IRS990/irs:InformationTechnologyGrp/irs:TotalAmt">>],
    [name |-> "RoyaltiesGrp", is_list |-> FALSE, paths |-> <<".//irs:IRS990/irs:RoyaltiesGrp/irs:TotalAmt">>],
    [name |-> "OccupancyGrp", is_list |-> FALSE, paths |-> <<".//irs:IRS990/irs:OccupancyGrp/irs:TotalAmt">>],
    [name |-> "TravelGrp", is_list |-> FALSE, paths |-> <<".//irs:IRS990/irs:TravelGrp/irs:TotalAmt">>],
    [name |-> "PymtTravelEntrtnmntPubOfclGrp", is_list |-> FALSE, paths |-> <<".//irs:IRS990/irs:PymtTravelEntrtnmntPubOfclGrp/irs:TotalAmt">>],
    [name |-> "ConferencesMeetingsGrp", is_list |-> FALSE, paths |-> <<".//irs:IRS990/irs:ConferencesMeetingsGrp/irs:TotalAmt">>],
    [name |-> "InterestGrp", is_list |-> FALSE, paths |-> <<".//irs:IRS990/irs:InterestGrp/irs:TotalAmt">>],
    [name |-> "PaymentsToAffiliatesGrp", is_list |-> FALSE, paths |-> <<".//irs:IRS990/irs:PaymentsToAffiliatesGrp/irs:TotalAmt">>],
    [name |-> "DepreciationDepletionGrp", is_list |-> FALSE, paths |-> <<".//irs:IRS990/irs:DepreciationDepletionGrp/irs:TotalAmt">>],
    [name |-> "InsuranceGrp", is_list |-> FALSE, paths |-> <<".//irs:IRS990/irs:InsuranceGrp/irs:TotalAmt">>],
    [name |-> "TotalFunctionalExpenseAmt", is_list |-> FALSE, paths |-> <<".//irs:IRS990/irs:TotalFunctionalExpensesGrp/irs:TotalAmt">>],
    [name |-> "TotalProgramServiceExpensesAmt", is_list |-> FALSE, paths |-> <<".//irs:IRS990/irs:TotalProgramServiceExpensesAmt">>],
    [name |-> "ManagementAndGeneralAmt", is_list |-> FALSE, paths |-> <<".//irs:IRS990/irs:TotalFunctionalExpensesGrp/irs:ManagementAndGeneralAmt">>],
    [name |-> "FundraisingAmt", is_list |-> FALSE, paths |-> <<".//irs:IRS990/irs:TotalFunctionalExpensesGrp/irs:FundraisingAmt">>],
    [name |-> "CashNonInterestBearingGrp", is_list |-> FALSE, paths |-> <<".//irs:IRS990/irs:CashNonInterestBearingGrp/irs:EOYAmt">>],
    [name |-> "SavingsAndTempCashInvstGrp", is_list |-> FALSE, paths |-> <<".//irs:IRS990/irs:SavingsAndTempCashInvstGrp/irs:EOYAmt">>],
    [name |-> "PledgesAndGrantsReceivableGrp", is_list |-> FALSE, paths |-> <<".//irs:IRS990/irs:PledgesAndGrantsReceivableGrp/irs:EOYAmt">>],
    [name |-> "AccountsReceivableGrp", is_list |-> FALSE, paths |-> <<".//irs:IRS990/irs:AccountsReceivableGrp/irs:EOYAmt">>],
    [name |-> "ReceivablesFromOfficersEtcGrp", is_list |-> FALSE, paths |-> <<".//irs:IRS990/irs:ReceivablesFromOfficersEtcGrp/irs:EOYAmt">>],
    [name |-> "RcvblFromDisqualifiedPrsnGrp", is_list |-> FALSE, paths |-> <<".//irs:IRS990/irs:RcvblFromDisqualifiedPrsnGrp/irs:EOYAmt">>],
    [name |-> "OthNotesLoansReceivableNetGrp", is_list |-> FALSE, paths |-> <<".//irs:IRS990/irs:OthNotesLoansReceivableNetGrp/irs:EOYAmt">>],
    [name |-> "InventoriesForSaleOrUseGrp", is_list |-> FALSE, paths |-> <<".//irs:IRS990/irs:InventoriesForSaleOrUseGrp/irs:EOYAmt">>],
    [name |-> "PrepaidExpensesDefrdChargesGrp", is_list |-> FALSE, paths |-> <<".//irs:IRS990/irs:PrepaidExpensesDefrdChargesGrp/irs:EOYAmt">>],
    [name |-> "LandBldgEquipBasisNetGrp", is_list |-> FALSE, paths |-> <<".//irs:IRS990/irs:LandBldgEquipBasisNetGrp/irs:EOYAmt">>],
    [name |-> "InvestmentsPubTradedSecGrp", is_list |-> FALSE, paths |-> <<".//irs:IRS990/irs:InvestmentsPubTradedSecGrp/irs:EOYAmt">>],
    [name |-> "InvestmentsOtherSecuritiesGrp", is_list |-> FALSE, paths |-> <<".//irs:IRS990/irs:InvestmentsOtherSecuritiesGrp/irs:EOYAmt">>],
    [name |-> "InvestmentsProgramRelatedGrp", is_list |-> TRUE, paths |-> <<".//irs:IRS990/irs:InvestmentsProgramRelatedGrp/irs:TotalBookValueProgramRltdAmt", ".//irs:IRS990/irs:InvestmentsProgramRelatedGrp/irs:EOYAmt">>],
    [name |-> "IntangibleAssetsGrp", is_list |-> FALSE, paths |-> <<".//irs:IRS990/irs:IntangibleAssetsGrp/irs:EOYAmt">>],
    [name |-> "OtherAssetsTotalGrp", is_list |-> FALSE, paths |-> <<".//irs:IRS990/irs:OtherAssetsTotalGrp/irs:EOYAmt">>],
    [name |-> "TotalAssetsGrp", is_list |-> FALSE, paths |-> <<".//irs:IRS990/irs:TotalAssetsGrp/irs:EOYAmt">>],
    [name |-> "AccountsPayableAccrExpnssGrp", is_list |-> FALSE, paths |-> <<".//irs:IRS990/irs:AccountsPayableAccrExpnssGrp/irs:EOYAmt">>],
    [name |-> "GrantsPayableGrp", is_list |-> FALSE, paths |-> <<".//irs:IRS990/irs:GrantsPayableGrp/irs:EOYAmt">>],
    [name |-> "DeferredRevenueGrp", is_list |-> FALSE, paths |-> <<".//irs:IRS990/irs:DeferredRevenueGrp/irs:EOYAmt">>],
    [name |-> "TaxExemptBondLiabilitiesGrp", is_list |-> FALSE, paths |-> <<".//irs:IRS990/irs:TaxExemptBondLiabilitiesGrp/irs:EOYAmt">>],
    [name |-> "EscrowAccountLiabilityGrp", is_list |-> FALSE, paths |-> <<".//irs:IRS990/irs:EscrowAccountLiabilityGrp/irs:EOYAmt">>],
    [name |-> "LoansFromOfficersDirectorsGrp", is_list |-> FALSE, paths |-> <<".//irs:IRS990/irs:LoansFromOfficersDirectorsGrp/irs:EOYAmt">>],
    [name |-> "MortgNotesPyblScrdInvstPropGrp", is_list |-> FALSE, paths |-> <<".//irs:IRS990/irs:MortgNotesPyblScrdInvstPropGrp/irs:EOYAmt">>],
    [name |-> "UnsecuredNotesLoansPayableGrp", is_list |-> FALSE, paths |-> <<".//irs:IRS990/irs:UnsecuredNotesLoansPayableGrp/irs:EOYAmt">>],
    [name |-> "OtherLiabilitiesGrp", is_list |-> FALSE, paths |-> <<".//irs:IRS990/irs:OtherLiabilitiesGrp/irs:EOYAmt">>],
    [name |-> "TotalLiabilitiesGrp", is_list |-> FALSE, paths |-> <<".//irs:IRS990/irs:TotalLiabilitiesGrp/irs:EOYAmt">>],
    [name |-> "NoDonorRestrictionNetAssetsGrp", is_list |-> FALSE, paths |-> <<".//irs:IRS990/irs:NoDonorRestrictionNetAssetsGrp/irs:EOYAmt">>],
    [name |-> "DonorRestrictionNetAssetsGrp", is_list |-> FALSE, paths |-> <<".//irs:IRS990/irs:DonorRestrictionNetAssetsGrp/irs:EOYAmt">>],
    [name |-> "TotalNetAssetsFundBalanceGrp", is_list |-> FALSE, paths |-> <<".//irs:IRS990/irs:TotalNetAssetsFundBalanceGrp/irs:EOYAmt">>],
    [name |-> "TotLiabNetAssetsFundBalanceGrp", is_list |-> FALSE, paths |-> <<".//irs:IRS990/irs:TotLiabNetAssetsFundBalanceGrp/irs:EOYAmt">>]
  >>

field_mappings(v) == IF v = "main" THEN field_mappings_main ELSE field_mappings_app

MAX_CONTRACTORS == 5

(***************************************************************************)
(* parse_xml_data                                                          *)
(***************************************************************************)

\* A faulty inner loop, for comparison: it keeps the last non-empty candidate.
RECURSIVE FirstValue_last(_, _, _)
FirstValue_last(root, path_list, value) ==
  IF path_list = <<>> THEN value
  ELSE LET v == get_text(root, Head(path_list), <<>>)
       IN FirstValue_last(root, Tail(path_list), IF v # "" THEN v ELSE value)

\* The inner loop over the candidate paths of one field: value is overwritten
\* by every candidate tried, and the loop stops at the first non-empty one.
RECURSIVE FirstValue(_, _, _)
FirstValue(root, path_list, value) ==
  IF path_list = <<>> THEN value
  ELSE LET v == get_text(root, Head(path_list), <<>>)
       IN IF v # "" THEN v ELSE FirstValue(root, Tail(path_list), v)

\* The loop over field_mappings.items(): the keys of a dict are distinct, so
\* every assignment extracted_data[field_name] = value appends one item.
ExtractFields(root, mappings) ==
  [i \in 1..Len(mappings) |->
     <<mappings[i].name, FirstValue(root, mappings[i].paths, "")>>]

ContractorKey(i, field) == "Contractor_" \o ToString(i) \o "_" \o field

\* The four assignments made for contractor block i.
SetContractor(extracted_data, i, name, services, compensation, address) ==
  DictSet(DictSet(DictSet(DictSet(extracted_data,
    ContractorKey(i, "Name"), name),
    ContractorKey(i, "Services"), services),
    ContractorKey(i, "Compensation"), compensation),
    ContractorKey(i, "Address"), address)

\* The body of the loop over enumerate(contractor_nodes[:MAX_CONTRACTORS]).
ContractorBlock(root, extracted_data, i, contractor_node) ==
  LET person == get_text(root, "./irs:ContractorName/irs:PersonNm", contractor_node)
      name == IF person # "" THEN person
              ELSE get_text(root,
                     "./irs:ContractorName/irs:BusinessName/irs:BusinessNameLine1Txt",
                     contractor_node)
      services == get_text(root, "./irs:ServicesDesc", contractor_node)
      compensation == get_text(root, "./irs:CompensationAmt", contractor_node)
      addr_parts == <<
        get_text(root, "./irs:ContractorAddress/irs:USAddress/irs:AddressLine1Txt", contractor_node),
        get_text(root, "./irs:ContractorAddress/irs:USAddress/irs:CityNm", contractor_node),
        get_text(root, "./irs:ContractorAddress/irs:USAddress/irs:StateAbbreviationCd", contractor_node),
        get_text(root, "./irs:ContractorAddress/irs:USAddress/irs:ZIPCd", contractor_node) >>
      address == join(", ", FilterNonEmpty(addr_parts))
  IN SetContractor(extracted_data, i + 1, name, services, compensation, address)

\* A faulty loop, for comparison: it walks the groups from the last to the first.
RECURSIVE ExtractContractors_reversed(_, _, _, _)
ExtractContractors_reversed(root, nodes, i, extracted_data) ==
  IF i >= Len(nodes) THEN extracted_data
  ELSE ExtractContractors_reversed(root, nodes, i + 1,
         ContractorBlock(root, extracted_data, i, nodes[Len(nodes) - i]))

\* for i, contractor_node in enumerate(contractor_nodes[:MAX_CONTRACTORS])
RECURSIVE ExtractContractors(_, _, _, _)
ExtractContractors(root, nodes, i, extracted_data) ==
  IF i >= Len(nodes) THEN extracted_data
  ELSE ExtractContractors(root, nodes, i + 1,
         ContractorBlock(root, extracted_data, i, nodes[i + 1]))

\* A faulty padding loop, for comparison: it stops one block early.
RECURSIVE PadContractors_short(_, _)
PadContractors_short(i, extracted_data) ==
  IF i >= MAX_CONTRACTORS - 1 THEN extracted_data
  ELSE PadContractors_short(i + 1, SetContractor(extracted_data, i + 1, "", "", "", ""))

\* for i in range(len(contractor_nodes), MAX_CONTRACTORS)
RECURSIVE PadContractors(_, _)
PadContractors(i, extracted_data) ==
  IF i >= MAX_CONTRACTORS THEN extracted_data
  ELSE PadContractors(i + 1, SetContractor(extracted_data, i + 1, "", "", "", ""))

\* xml_content is [kind |-> "xml", root |-> element] when the recovering parser
\* yields a root element, and [kind |-> "garbage"] when it yields none: every
\* exception is caught and None returned.
parse_xml_data(v, content) ==
  IF content.kind # "xml" THEN None
  ELSE LET root == content.root
           fields == ExtractFields(root, field_mappings(v))
           contractor_nodes == xpath(root, <<>>, ".//irs:IRS990/irs:ContractorCompensationGrp")
           first == SubSeq(contractor_nodes, 1,
                           IF Len(contractor_nodes) < MAX_CONTRACTORS
                           THEN Len(contractor_nodes) ELSE MAX_CONTRACTORS)
           blocks == ExtractContractors(root, first, 0, fields)
       IN Dict(PadContractors(Len(contractor_nodes), blocks))

(***************************************************************************)
(* Filing documents                                                        *)
(***************************************************************************)

MaxGroups == 7     \* most contractor groups in a document

Leaf(tag, text) == El(ns.irs, tag, <<text>>, <<>>)
Group(tag, children) == El(ns.irs, tag, <<>>, children)

\* Contractor group j of a document: odd groups name a person, even ones a
\* business; the address loses its city, or is absent, in every third group.
ContractorGrp(j) ==
  Group("ContractorCompensationGrp",
    << Group("ContractorName",
         IF j % 2 = 1 THEN << Leaf("PersonNm", " P" \o ToString(j) \o " ") >>
         ELSE << Group("BusinessName",
                   << Leaf("BusinessNameLine1Txt", "B" \o ToString(j)) >>) >>) >>
    \o (IF j % 3 = 0 THEN <<>>
        ELSE << Group("ContractorAddress", << Group("USAddress",
                  << Leaf("AddressLine1Txt", ToString(j) \o " Main St") >>
                  \o (IF j % 3 = 2 THEN << Leaf("CityNm", "") >>
                      ELSE << Leaf("CityNm", "Town") >>)
                  \o << Leaf("StateAbbreviationCd", "NY"),
                        Leaf("ZIPCd", "1000" \o ToString(j)) >>) >>) >>)
    \o << Leaf("ServicesDesc", "S" \o ToString(j)),
          Leaf("CompensationAmt", ToString(100000 + j)) >>)

Filer ==
  Group("Filer", << Leaf("EIN", "123456789"),
                    Group("BusinessName", << Leaf("BusinessNameLine1Txt", "ORG A") >>) >>)

\* The rental-income group: which of RealAmt and PersonalAmt it carries.
Rental(r) ==
  CASE r = "none"     -> <<>>
    [] r = "real"     -> << Group("RentalIncomeOrLossGrp", << Leaf("RealAmt", "11") >>) >>
    [] r = "personal" -> << Group("RentalIncomeOrLossGrp", << Leaf("PersonalAmt", "22") >>) >>
    [] r = "both"     -> << Group("RentalIncomeOrLossGrp",
                              << Leaf("RealAmt", "11"), Leaf("PersonalAmt", "22") >>) >>
    [] r = "blank"    -> << Group("RentalIncomeOrLossGrp",
                              << Leaf("RealAmt", "  "), Leaf("PersonalAmt", "22") >>) >>

\* The prepaid-expenses group, as the IRS schema spells it or as an element
\* outside the namespace with a lower-case initial.
Prepaid(p) ==
  CASE p = "none" -> <<>>
    [] p = "irs"  -> << Group("PrepaidExpensesDefrdChargesGrp", << Leaf("EOYAmt", "33") >>) >>
    [] p = "bare" -> << El("", "prepaidExpensesDefrdChargesGrp", <<>>,
                           << Leaf("EOYAmt", "44") >>) >>

RECURSIVE ContractorGrps(_)
ContractorGrps(k) == IF k = 0 THEN <<>> ELSE Append(ContractorGrps(k - 1), ContractorGrp(k))

XmlDoc(filer, r, p, k) ==
  [kind |-> "xml",
   root |-> Group("Return",
     << Group("ReturnHeader",
          << Leaf("TaxYr", "\n 2022 ") >> \o (IF filer THEN <<Filer>> ELSE <<>>)),
        Group("ReturnData",
          << Group("IRS990",
               << Leaf("TotalAssetsGrp", "") >>
               \o Rental(r) \o Prepaid(p) \o ContractorGrps(k)) >>) >>)]

Garbage == [kind |-> "garbage", root |-> Group("", <<>>)]

RentalKinds == {"none", "real", "personal", "both", "blank"}
PrepaidKinds == {"none", "irs", "bare"}

\* The documents parse_xml_data is applied to.
Docs ==
  {Garbage}
  \cup {XmlDoc(k % 2 = 0, "both", "irs", k) : k \in 0..MaxGroups}
  \cup {XmlDoc(filer, r, p, k) :
          filer \in BOOLEAN, r \in RentalKinds, p \in PrepaidKinds, k \in {0, 2}}

Variants == {"main", "app"}

(***************************************************************************)
(* get_object_id_from_propublica_website                                   *)
(***************************************************************************)

Digits == "0123456789"

IsDigit(c) == \E i \in 1..10 : CharAt(Digits, i) = c

DigitValue(c) == (CHOOSE i \in 1..10 : CharAt(Digits, i) = c) - 1

\* The value of a non-empty string of digits and underscores, read left to right.
RECURSIVE DigitsValue(_, _)
DigitsValue(s, acc) ==
  IF s = "" THEN acc
  ELSE IF CharAt(s, 1) = "_" THEN DigitsValue(SubSeq(s, 2, Len(s)), acc)
  ELSE DigitsValue(SubSeq(s, 2, Len(s)), 10 * acc + DigitValue(CharAt(s, 1)))

\* int accepts, between optional white space, an optional sign and then digits,
\* which single underscores may separate.
ValidDigits(s) ==
  /\ s # ""
  /\ \A i \in 1..Len(s) : IsDigit(CharAt(s, i)) \/ CharAt(s, i) = "_"
  /\ IsDigit(CharAt(s, 1)) /\ IsDigit(CharAt(s, Len(s)))
  /\ \A i \in 1..(Len(s) - 1) : ~(CharAt(s, i) = "_" /\ CharAt(s, i + 1) = "_")

\* int(s): [ok |-> FALSE] stands for ValueError.
int(s) ==
  LET t == strip(s)
      signed == t # "" /\ CharAt(t, 1) \in {"+", "-"}
      body == IF signed THEN SubSeq(t, 2, Len(t)) ELSE t
  IN IF ValidDigits(body)
     THEN [ok |-> TRUE,
           val |-> IF signed /\ CharAt(t, 1) = "-"
                   THEN 0 - DigitsValue(body, 0) ELSE DigitsValue(body, 0)]
     ELSE [ok |-> FALSE, val |-> 0]

\* str(n) of an integer
str(n) == ToString(n)

\* What a call returns or raises.
Return(value) == [kind |-> "return", value |-> value, exc |-> ""]
Raise(exc) == [kind |-> "raise", value |-> None, exc |-> exc]
Pending == [kind |-> "pending", value |-> None, exc |-> ""]

\* The subclasses of requests.exceptions.RequestException that requests.get and
\* raise_for_status raise.
RequestException == {"Timeout", "ConnectionError", "HTTPError"}

\* What requests.get does: it raises (kind "Timeout", "ConnectionError", or
\* "Exception" for an error that is no RequestException) or it yields a
\* response with a status and, once parsed, the <a> elements of the page.
Failure(kind) == [kind |-> kind, status |-> 0, anchors |-> <<>>, content |-> [kind |-> "none"]]
Page(status, anchors) ==
  [kind |-> "response", status |-> status, anchors |-> anchors, content |-> [kind |-> "none"]]
Download(status, content) ==
  [kind |-> "response", status |-> status, anchors |-> <<>>, content |-> content]
NoResponse == Failure("none")

\* requests.get(...) followed by response.raise_for_status(): the exception
\* raised, "" if none.
RequestError(resp) ==
  IF resp.kind # "response" THEN resp.kind
  ELSE IF resp.status >= 400 /\ resp.status < 600 THEN "HTTPError"
  ELSE ""

\* An <a> element: link.attrs has 'href' or not.
Anchor(href) == [has_href |-> TRUE, href |-> href]
AnchorNoHref == [has_href |-> FALSE, href |-> ""]

\* The handles of the download links of the page, in page order.
RECURSIVE ObjectIds(_)
ObjectIds(all_links) ==
  IF all_links = <<>> THEN <<>>
  ELSE LET link == Head(all_links)
       IN (IF link.has_href /\ Contains(link.href, "download-xml?object_id=")
           THEN << strip(split(link.href, "object_id=")[2]) >>
           ELSE <<>>) \o ObjectIds(Tail(all_links))

\* A faulty search, for comparison: it returns the last matching handle.
RECURSIVE FirstWithPrefix_last(_, _)
FirstWithPrefix_last(all_object_ids, filing_year_prefix) ==
  IF all_object_ids = <<>> THEN None
  ELSE IF StartsWith(all_object_ids[Len(all_object_ids)], filing_year_prefix)
       THEN Str(all_object_ids[Len(all_object_ids)])
       ELSE FirstWithPrefix_last(SubSeq(all_object_ids, 1, Len(all_object_ids) - 1),
                                 filing_year_prefix)

\* for oid in all_object_ids: if oid.startswith(filing_year_prefix): return oid
RECURSIVE FirstWithPrefix(_, _)
FirstWithPrefix(all_object_ids, filing_year_prefix) ==
  IF all_object_ids = <<>> THEN None
  ELSE IF StartsWith(Head(all_object_ids), filing_year_prefix)
       THEN Str(Head(all_object_ids))
       ELSE FirstWithPrefix(Tail(all_object_ids), filing_year_prefix)

\* The part of the resolver that follows a successful lookup request.
MatchHandle(all_links, year) ==
  LET all_object_ids == ObjectIds(all_links)
  IN IF all_object_ids = <<>> THEN None
     ELSE IF ~int(year).ok THEN None
     ELSE FirstWithPrefix(all_object_ids, str(int(year).val + 1))

\* main.py catches RequestException around the whole body; app.py has no
\* handler for it, and the exception leaves the function.
get_object_id_from_propublica_website(v, year, resp) ==
  LET err == RequestError(resp)
  IN IF err = "" THEN Return(MatchHandle(resp.anchors, year))
     ELSE IF v = "main" /\ err \in RequestException THEN Return(None)
     ELSE Raise(err)

(***************************************************************************)
(* process_single_filing                                                   *)
(***************************************************************************)

\* ein = str(row['ein']).strip().replace('-', '') and year = str(row['year']).strip()
NormalizeEin(row) == remove(strip(row.ein), "-")
NormalizeYear(row) == strip(row.year)

\* A future of the pool and the task behind it.  st is the position of the
\* task: "queued", "resolving" (waiting for the lookup), "fetching" (waiting
\* for the download) or "done"; lookups and downloads count the requests sent.
NewFuture(row) ==
  [row |-> row, st |-> "queued", ein |-> "", year |-> "",
   lookup |-> NoResponse, resolved |-> Pending, outcome |-> Pending,
   collected |-> FALSE, lookups |-> 0, downloads |-> 0]

\* The messages app.py puts on the progress queue.
MsgSuccess(f) == "Success: EIN " \o f.ein \o ", Year " \o f.year
MsgDownloadFailed(f, e) == "Warning: Download failed for EIN " \o f.ein \o ". Reason: " \o e
MsgUnexpected(f, e) == "Warning: An unexpected error occurred for EIN " \o f.ein \o ". Reason: " \o e
MsgFailed(f) == "Failed: EIN " \o f.ein \o ", Year " \o f.year

\* What the except clauses of process_single_filing make of an exception:
\* main.py handles RequestException of the download only, app.py everything.
\* Yields the outcome of the task and the messages put on the queue.
OnException(v, f, exc, in_download) ==
  IF v = "app"
  THEN [outcome |-> Return(None),
        msgs |-> << IF exc \in RequestException
                    THEN MsgDownloadFailed(f, exc) ELSE MsgUnexpected(f, exc),
                    MsgFailed(f) >>]
  ELSE IF in_download /\ exc \in RequestException
  THEN [outcome |-> Return(None), msgs |-> <<>>]
  ELSE [outcome |-> Raise(exc), msgs |-> <<>>]

\* The task after its lookup request came back with resp.
AfterLookup(v, f, resp) ==
  LET r == get_object_id_from_propublica_website(v, f.year, resp)
      g == [f EXCEPT !.lookup = resp, !.resolved = r]
  IN IF r.kind = "raise"
     THEN LET h == OnException(v, f, r.exc, FALSE)
          IN [fut |-> [g EXCEPT !.st = "done", !.outcome = h.outcome], msgs |-> h.msgs]
     ELSE IF Truthy(r.value)
     THEN [fut |-> [g EXCEPT !.st = "fetching", !.downloads = @ + 1], msgs |-> <<>>]
     ELSE [fut |-> [g EXCEPT !.st = "done", !.outcome = Return(None)],
           msgs |-> IF v = "app" THEN <<MsgFailed(f)>> ELSE <<>>]

\* The task after parse_xml_data returned extracted_record.
AfterParse(v, f, extracted_record) ==
  IF v = "main"
  THEN [fut |-> [f EXCEPT !.st = "done", !.outcome = Return(extracted_record)],
        msgs |-> <<>>]
  ELSE IF Truthy(extracted_record)
  THEN [fut |-> [f EXCEPT !.st = "done", !.outcome = Return(extracted_record)],
        msgs |-> <<MsgSuccess(f)>>]
  ELSE [fut |-> [f EXCEPT !.st = "done", !.outcome = Return(None)],
        msgs |-> <<MsgFailed(f)>>]

\* The document of most downloads and what parse_xml_data makes of it in
\* each file, evaluated once.
DocA == XmlDoc(TRUE, "both", "irs", 2)
RecordOfDocA == [main |-> parse_xml_data("main", DocA), app |-> parse_xml_data("app", DocA)]

\* parse_xml_data(response.content)
Parsed(v, content) ==
  IF content = DocA THEN RecordOfDocA[v] ELSE parse_xml_data(v, content)

\* The task after its download request came back with resp.
AfterDownload(v, f, resp) ==
  IF RequestError(resp) # ""
  THEN LET h == OnException(v, f, RequestError(resp), TRUE)
       IN [fut |-> [f EXCEPT !.st = "done", !.outcome = h.outcome], msgs |-> h.msgs]
  ELSE AfterParse(v, f, Parsed(v, resp.content))

\* The state of a direct call of parse_xml_data before it is made.
NotCalled == [called |-> FALSE, value |-> None]

(***************************************************************************)
(* Input tables                                                            *)
(***************************************************************************)

MAX_ROWS_MAIN == 3
MAX_ROWS_APP == 250
max_workers == 10

MAX_ROWS(v) == IF v = "main" THEN MAX_ROWS_MAIN ELSE MAX_ROWS_APP

MaxBatch == 2      \* largest batch whose run through the pool is explored

Row(ein, year) == [ein |-> ein, year |-> year]

\* What pd.read_csv(..., dtype='str') yields: it raises (readable is FALSE) or
\* gives a frame with these columns and rows.
MkTable(columns, n, row) ==
  [readable |-> TRUE, columns |-> columns, rows |-> [i \in 1..n |-> row]]
Unreadable == [readable |-> FALSE, columns |-> <<>>, rows |-> <<>>]
NoTable == [readable |-> FALSE, columns |-> <<"none">>, rows |-> <<>>]

RowA == Row("12-3456789", "2022")
RowB == Row(" 123456789 ", "20x2")

\* The tables a batch is started with: every size up to MaxBatch, the cap and
\* the cap plus one, with and without the required columns.
Tables(v) ==
  {MkTable(<<"ein", "year">>, n, r) :
     n \in (0..MaxBatch) \cup {MAX_ROWS(v), MAX_ROWS(v) + 1}, r \in {RowA, RowB}}
  \cup {MkTable(<<"ein", "year", "name">>, 1, RowA),
        MkTable(<<"ein">>, 1, RowA),
        MkTable(<<"year", "name">>, 1, RowA),
        MkTable(<<"EIN", "Year">>, 1, RowA),
        MkTable(<<"ein">>, MAX_ROWS(v) + 1, RowA),
        Unreadable}

\* A faulty validation, for comparison: it also rejects a table of exactly
\* MAX_ROWS rows.
ValidateTable_ge(v, t) ==
  IF ~t.readable THEN "unreadable"
  ELSE IF Len(t.rows) >= MAX_ROWS(v) THEN "too_many"
  ELSE IF ~("ein" \in Range(t.columns)) \/ ~("year" \in Range(t.columns))
       THEN "missing_columns"
  ELSE ""

\* The checks made on the table before anything is submitted: "" when the
\* batch is accepted, else the reason of the rejection.
ValidateTable(v, t) ==
  IF ~t.readable THEN "unreadable"
  ELSE IF Len(t.rows) > MAX_ROWS(v) THEN "too_many"
  ELSE IF ~("ein" \in Range(t.columns)) \/ ~("year" \in Range(t.columns))
       THEN "missing_columns"
  ELSE ""

(***************************************************************************)
(* The output table                                                        *)
(***************************************************************************)

\* The columns of pd.DataFrame(list of dicts): the keys in the order in which
\* the records first show them.
RECURSIVE UnionKeys(_, _)
UnionKeys(data, n) ==
  IF n = 0 THEN <<>>
  ELSE LET cols == UnionKeys(data, n - 1)
           keys == Keys(data[n].items)
       IN cols \o Pick(keys, {i \in 1..Len(keys) : keys[i] \notin Range(cols)})

Frame(columns, data) ==
  [columns |-> columns,
   rows |-> [r \in 1..Len(data) |->
               [c \in 1..Len(columns) |->
                  IF HasKey(data[r].items, columns[c])
                  THEN DictGet(data[r].items, columns[c]) ELSE "NaN"]]]

DataFrame(data) == Frame(UnionKeys(data, Len(data)), data)

NoFrame == [columns |-> <<>>, rows |-> <<>>]

\* The column order main.py gives the frame before it writes the CSV.
ReorderColumns(columns) ==
  LET leading_cols == <<"Ein", "OrganizationName">>
      contractor_cols ==
        sorted(Pick(columns, {i \in 1..Len(columns) : StartsWith(columns[i], "Contractor_")}))
      other_cols ==
        Pick(columns, {i \in 1..Len(columns) :
                         /\ columns[i] \notin Range(leading_cols)
                         /\ columns[i] \notin Range(contractor_cols)})
      final_leading_cols ==
        Pick(leading_cols, {i \in 1..Len(leading_cols) : leading_cols[i] \in Range(columns)})
  IN final_leading_cols \o contractor_cols \o other_cols

\* The frame that is written out: main.py reorders the columns, app.py writes
\* the frame as pd.DataFrame built it.
OutputFrame(v, data) ==
  IF v = "main"
  THEN Frame(ReorderColumns(UnionKeys(data, Len(data))), data)
  ELSE DataFrame(data)

(***************************************************************************)
(* Inbound requests of the cloud function and its shared secret            *)
(***************************************************************************)

StoredSecret == "admin:s3cret"

\* base64.b64decode(s).decode("utf-8") for the credentials that occur in the
\* requests below; ok is FALSE where decoding raises.
B64Decode(s) ==
  CASE s = "YWRtaW46czNjcmV0"     -> [ok |-> TRUE, text |-> "admin:s3cret"]
    [] s = "dXNlcjpwYXNzd29yZA==" -> [ok |-> TRUE, text |-> "user:password"]
    [] s = "Z3Vlc3Q6Z3Vlc3Q="     -> [ok |-> TRUE, text |-> "guest:guest"]
    [] OTHER                      -> [ok |-> FALSE, text |-> ""]

\* request.headers.get("Authorization"): absent or a string.
NoHeader == [present |-> FALSE, value |-> ""]
Header(s) == [present |-> TRUE, value |-> s]

AuthHeaders ==
  {NoHeader, Header("Basic"), Header("Basic abc"),
   Header("Basic YWRtaW46czNjcmV0"), Header("Basic dXNlcjpwYXNzd29yZA=="),
   Header("Basic Z3Vlc3Q6Z3Vlc3Q=")}

Methods == {"OPTIONS", "GET", "POST", "PUT"}

NoRequest == [method |-> "NONE", auth |-> NoHeader, frontend |-> FALSE]

\* CACHED_SECRET ("" for None) and whether Secret Manager answers.
Secrets == [cached : {"", StoredSecret}, manager : {"up", "down"}]
NoSecret == [cached |-> "", manager |-> "none"]

\* get_basic_auth_credentials: the value returned and CACHED_SECRET afterwards.
get_basic_auth_credentials(s) ==
  IF s.cached # "" THEN [value |-> s.cached, secret |-> s]
  ELSE IF s.manager = "up"
       THEN [value |-> StoredSecret, secret |-> [s EXCEPT !.cached = StoredSecret]]
  ELSE [value |-> "user:password", secret |-> s]

CorsHeaders == {"Access-Control-Allow-Origin", "Access-Control-Allow-Methods",
                "Access-Control-Allow-Headers"}

Response(body, status, headers) ==
  [body |-> body, status |-> status, headers |-> headers, attachment |-> FALSE]
NoOutcome == Response("", 0, {})

\* The authentication check of process_ein_list: the 401 response, or a
\* response of status 0 when the credentials are accepted.
CheckAuth(auth_header, expected_credentials) ==
  IF ~auth_header.present
  THEN Response("Unauthorized", 401, CorsHeaders \cup {"WWW-Authenticate"})
  ELSE LET parts == split(auth_header.value, " ")
       IN IF Len(parts) < 2 \/ ~B64Decode(parts[2]).ok
          THEN Response("Invalid authorization header", 401, CorsHeaders)
          ELSE IF B64Decode(parts[2]).text # expected_credentials
          THEN Response("Invalid credentials", 401, CorsHeaders)
          ELSE NoOutcome

\* The rejection main.py answers an invalid table with.
Rejection(reason) ==
  CASE reason = "too_many" ->
         Response("Too many rows. Please provide a file with no more than "
                  \o ToString(MAX_ROWS_MAIN) \o " entries.", 413, CorsHeaders)
    [] reason = "missing_columns" ->
         Response("Invalid CSV format. Ensure it has 'ein' and 'year' columns.", 400, CorsHeaders)
    [] reason = "unreadable" ->
         Response("Invalid CSV data provided: e", 400, CorsHeaders)

\* The message of the ValueError (or of the read error) that app.py reports.
ErrorText(reason) ==
  CASE reason = "too_many" ->
         "Error: File has more than " \o ToString(MAX_ROWS_APP) \o " rows."
    [] reason = "missing_columns" -> "Error: CSV must contain 'ein' and 'year' columns."
    [] reason = "unreadable" -> "e"
    [] reason = "empty" -> "Process finished, but no data could be extracted."

(***************************************************************************)
(* The batch: process_ein_list (main.py), App.process_data_worker (app.py) *)
(***************************************************************************)

\* self.progress['value'] = (processed_count / total_rows) * 100, kept as the
\* fraction num/den.
Progress(count, total) == [num |-> count * 100, den |-> total]

\* self.progress['value'] = 0
NoProgress == [num |-> 0, den |-> 1]

\* a <= b for two such fractions.
ProgressLeq(a, b) == a.num * b.den <= b.num * a.den

\* The widgets of App while process_data_worker runs: start_processing_thread
\* has disabled the button and reset the bar.  main.py has none.
Gui(v) ==
  IF v = "app"
  THEN [process_button |-> "disabled", input_file_path |-> "targets.csv",
        status_label |-> "File selected. Ready to process.",
        progress |-> NoProgress, workers |-> <<>>]
  ELSE [process_button |-> "", input_file_path |-> "", status_label |-> "",
        progress |-> NoProgress, workers |-> <<>>]

\* A faulty counter, for comparison: only the requests that returned a record
\* are counted.
Counted_successes(count, o) ==
  IF o.kind = "return" /\ Truthy(o.value) THEN count + 1 ELSE count

\* processed_count += 1, whatever the result o of the future.
Counted(count, o) == count + 1

\* process_ein_list up to the pool: CORS preflight, authentication, routing,
\* and for a POST the reading and validation of the CSV body.
HandleRequest ==
  /\ variant = "main"
  /\ pc = "start"
  /\ LET creds == get_basic_auth_credentials(secret)
         denied == CheckAuth(request.auth, creds.value)
         reason == ValidateTable(variant, table)
     IN IF request.method = "OPTIONS"
        THEN /\ response' = Response("", 204, CorsHeaders)
             /\ pc' = "done"
             /\ secret' = secret
        ELSE /\ secret' = creds.secret
             /\ IF denied.status # 0
                THEN response' = denied /\ pc' = "done"
                ELSE IF request.method = "GET"
                THEN /\ response' = IF request.frontend
                                    THEN Response("index.html", 200, CorsHeaders)
                                    ELSE Response("Frontend not found.", 500, CorsHeaders)
                     /\ pc' = "done"
                ELSE IF request.method = "POST"
                THEN IF reason # ""
                     THEN response' = Rejection(reason) /\ pc' = "done"
                     ELSE response' = response /\ pc' = "validated"
                ELSE response' = Response("Method Not Allowed", 405, CorsHeaders) /\ pc' = "done"
  /\ UNCHANGED <<gui, variant, request, table, futures, all_extracted_data, processed_count,
                 progress_queue, final_df, xml_content, extracted>>

\* process_data_worker up to the pool: the CSV is read and validated; a
\* failure is reported on the queue, followed by "DONE" (the finally clause).
ReadBatch ==
  /\ variant = "app"
  /\ pc = "start"
  /\ LET reason == ValidateTable(variant, table)
         q == Append(progress_queue, "Reading CSV file...")
     IN IF reason # ""
        THEN /\ progress_queue' = q \o <<"Error: " \o ErrorText(reason), "DONE">>
             /\ response' = Response("Error: " \o ErrorText(reason), 0, {})
             /\ pc' = "done"
        ELSE /\ progress_queue' =
                  Append(q, "Starting processing for " \o ToString(Len(table.rows))
                            \o " records...")
             /\ response' = response
             /\ pc' = "validated"
  /\ UNCHANGED <<gui, variant, request, secret, table, futures, all_extracted_data,
                 processed_count, final_df, xml_content, extracted>>

\* executor.submit for every row of the table: one future per row, queued in
\* row order.  Batches of more than limit rows are not run.
SubmitAll(limit) ==
  /\ pc = "validated"
  /\ Len(table.rows) <= limit
  /\ futures' = [i \in 1..Len(table.rows) |-> NewFuture(table.rows[i])]
  /\ all_extracted_data' = <<>>
  /\ processed_count' = 0
  /\ pc' = "pool"
  /\ UNCHANGED <<gui, variant, request, secret, table, progress_queue, response, final_df,
                 xml_content, extracted>>

\* The tasks that hold a worker thread.
InFlight == {i \in DOMAIN futures : futures[i].st \in {"resolving", "fetching"}}

\* A faulty pool, for comparison: a queued task starts whatever the number
\* of busy worker threads.
StartTask_unbounded ==
  /\ pc = "pool"
  /\ \E i \in DOMAIN futures :
       /\ futures[i].st = "queued"
       /\ \A j \in 1..(i - 1) : futures[j].st # "queued"
       /\ futures' = [futures EXCEPT ![i] =
            [@ EXCEPT !.st = "resolving", !.ein = NormalizeEin(futures[i].row),
                      !.year = NormalizeYear(futures[i].row), !.lookups = @ + 1]]
  /\ UNCHANGED <<gui, variant, request, secret, table, pc, all_extracted_data, processed_count,
                 progress_queue, response, final_df, xml_content, extracted>>

\* A worker thread of ThreadPoolExecutor(max_workers=10) takes the oldest
\* queued task and runs process_single_filing up to its lookup request.
StartTask ==
  /\ pc = "pool"
  /\ Cardinality(InFlight) < max_workers
  /\ \E i \in DOMAIN futures :
       /\ futures[i].st = "queued"
       /\ \A j \in 1..(i - 1) : futures[j].st # "queued"
       /\ futures' = [futures EXCEPT ![i] =
            [@ EXCEPT !.st = "resolving", !.ein = NormalizeEin(futures[i].row),
                      !.year = NormalizeYear(futures[i].row), !.lookups = @ + 1]]
  /\ UNCHANGED <<gui, variant, request, secret, table, pc, all_extracted_data, processed_count,
                 progress_queue, response, final_df, xml_content, extracted>>

\* The lookup request of task i comes back with resp.
LookupReturns(i, resp) ==
  /\ pc = "pool"
  /\ i \in DOMAIN futures
  /\ futures[i].st = "resolving"
  /\ \E a \in {AfterLookup(variant, futures[i], resp)} :
       /\ futures' = [futures EXCEPT ![i] = a.fut]
       /\ progress_queue' = progress_queue \o a.msgs
  /\ UNCHANGED <<gui, variant, request, secret, table, pc, all_extracted_data, processed_count,
                 response, final_df, xml_content, extracted>>

\* The download request of task i comes back with resp.
DownloadReturns(i, resp) ==
  /\ pc = "pool"
  /\ i \in DOMAIN futures
  /\ futures[i].st = "fetching"
  /\ \E a \in {AfterDownload(variant, futures[i], resp)} :
       /\ futures' = [futures EXCEPT ![i] = a.fut]
       /\ progress_queue' = progress_queue \o a.msgs
  /\ UNCHANGED <<gui, variant, request, secret, table, pc, all_extracted_data, processed_count,
                 response, final_df, xml_content, extracted>>

\* A faulty loop, for comparison: main.py too lets the exception of
\* future.result() end the loop.
Collect_uncaught(i) ==
  /\ pc = "pool"
  /\ i \in DOMAIN futures
  /\ futures[i].st = "done"
  /\ ~futures[i].collected
  /\ futures' = [futures EXCEPT ![i].collected = TRUE]
  /\ LET o == futures[i].outcome
     IN IF o.kind = "raise"
        THEN /\ pc' = "raised"
             /\ response' = Response("Error: " \o o.exc, 0, {})
             /\ UNCHANGED <<all_extracted_data, processed_count, gui>>
        ELSE /\ pc' = pc
             /\ response' = response
             /\ all_extracted_data' =
                  IF o.kind = "return" /\ Truthy(o.value)
                  THEN Append(all_extracted_data, o.value) ELSE all_extracted_data
             /\ processed_count' = IF variant = "app" THEN Counted(processed_count, o)
                                   ELSE processed_count
             /\ gui' = IF variant = "app"
                       THEN [gui EXCEPT !.progress =
                               Progress(Counted(processed_count, o), Len(table.rows))]
                       ELSE gui
  /\ UNCHANGED <<variant, request, secret, table, progress_queue, final_df,
                 xml_content, extracted>>

\* A faulty loop, for comparison: the result is appended whether or not it
\* is a record.
Collect_appendAll(i) ==
  /\ pc = "pool"
  /\ i \in DOMAIN futures
  /\ futures[i].st = "done"
  /\ ~futures[i].collected
  /\ futures' = [futures EXCEPT ![i].collected = TRUE]
  /\ LET o == futures[i].outcome
     IN IF o.kind = "raise" /\ variant = "app"
        THEN /\ pc' = "raised"
             /\ response' = Response("Error: " \o o.exc, 0, {})
             /\ UNCHANGED <<all_extracted_data, processed_count, gui>>
        ELSE /\ pc' = pc
             /\ response' = response
             /\ all_extracted_data' =
                  Append(all_extracted_data, o.value)
             /\ processed_count' = IF variant = "app" THEN Counted(processed_count, o)
                                   ELSE processed_count
             /\ gui' = IF variant = "app"
                       THEN [gui EXCEPT !.progress =
                               Progress(Counted(processed_count, o), Len(table.rows))]
                       ELSE gui
  /\ UNCHANGED <<variant, request, secret, table, progress_queue, final_df,
                 xml_content, extracted>>

\* One round of the loop over as_completed: future i is done and is consumed.
\* main.py catches what future.result() raises; app.py does not, and the
\* exception ends the loop and is reported by the handler around the worker.
Collect(i) ==
  /\ pc = "pool"
  /\ i \in DOMAIN futures
  /\ futures[i].st = "done"
  /\ ~futures[i].collected
  /\ futures' = [futures EXCEPT ![i].collected = TRUE]
  /\ LET o == futures[i].outcome
     IN IF o.kind = "raise" /\ variant = "app"
        THEN /\ pc' = "raised"
             /\ response' = Response("Error: " \o o.exc, 0, {})
             /\ UNCHANGED <<all_extracted_data, processed_count, gui>>
        ELSE /\ pc' = pc
             /\ response' = response
             /\ all_extracted_data' =
                  IF o.kind = "return" /\ Truthy(o.value)
                  THEN Append(all_extracted_data, o.value) ELSE all_extracted_data
             /\ processed_count' = IF variant = "app" THEN Counted(processed_count, o)
                                   ELSE processed_count
             /\ gui' = IF variant = "app"
                       THEN [gui EXCEPT !.progress =
                               Progress(Counted(processed_count, o), Len(table.rows))]
                       ELSE gui
  /\ UNCHANGED <<variant, request, secret, table, progress_queue, final_df,
                 xml_content, extracted>>

\* A faulty test, for comparison: the list of records never counts as empty.
NoData_never(data) == FALSE

\* if not all_extracted_data
NoData(data) == data = <<>>

AllCollected == \A i \in DOMAIN futures : futures[i].collected
AllDone == \A i \in DOMAIN futures : futures[i].st = "done"

\* The code after the pool: the with block is left when every task has ended.
Finish ==
  /\ \/ pc = "pool" /\ AllCollected
     \/ pc = "raised" /\ AllDone
  /\ IF pc = "raised"
     THEN /\ progress_queue' = progress_queue \o <<response.body, "DONE">>
          /\ pc' = "done"
          /\ UNCHANGED <<response, final_df>>
     ELSE IF NoData(all_extracted_data)
     THEN /\ pc' = "done"
          /\ final_df' = final_df
          /\ IF variant = "main"
             THEN /\ response' = Response("Process finished, but no data could be extracted from the provided filings.", 404, CorsHeaders)
                  /\ progress_queue' = progress_queue
             ELSE /\ response' = Response("Error: " \o ErrorText("empty"), 0, {})
                  /\ progress_queue' =
                       progress_queue \o <<"Error: " \o ErrorText("empty"), "DONE">>
     ELSE /\ final_df' = OutputFrame(variant, all_extracted_data)
          /\ IF variant = "main"
             THEN /\ response' = [Response("final_csv_string", 200,
                                     CorsHeaders \cup {"Content-Type", "Content-Disposition"})
                                  EXCEPT !.attachment = TRUE]
                  /\ progress_queue' = progress_queue
                  /\ pc' = "done"
             ELSE /\ response' = response
                  /\ progress_queue' =
                       Append(progress_queue, "Processing complete. Select a location to save.")
                  /\ pc' = "saving"
  /\ UNCHANGED <<gui, variant, request, secret, table, futures, all_extracted_data,
                 processed_count, xml_content, extracted>>

\* A faulty worker, for comparison: without the finally clause a cancelled
\* dialog ends the run and the final message is never put.
SaveDialog_noFinally(output_path) ==
  /\ variant = "app"
  /\ pc = "saving"
  /\ IF output_path # ""
     THEN /\ response' = [Response("Success! File saved.", 0, {}) EXCEPT !.attachment = TRUE]
          /\ progress_queue' = progress_queue \o <<"Success! File saved.", "DONE">>
     ELSE /\ response' = Response("Save cancelled. Process finished.", 0, {})
          /\ progress_queue' = progress_queue \o <<"Save cancelled. Process finished.">>
  /\ pc' = "done"
  /\ UNCHANGED <<gui, variant, request, secret, table, futures, all_extracted_data,
                 processed_count, final_df, xml_content, extracted>>

\* app.py: the user answers the save dialog with a path or cancels it.
SaveDialog(output_path) ==
  /\ variant = "app"
  /\ pc = "saving"
  /\ IF output_path # ""
     THEN /\ response' = [Response("Success! File saved.", 0, {}) EXCEPT !.attachment = TRUE]
          /\ progress_queue' = progress_queue \o <<"Success! File saved.", "DONE">>
     ELSE /\ response' = Response("Save cancelled. Process finished.", 0, {})
          /\ progress_queue' = progress_queue \o <<"Save cancelled. Process finished.", "DONE">>
  /\ pc' = "done"
  /\ UNCHANGED <<gui, variant, request, secret, table, futures, all_extracted_data,
                 processed_count, final_df, xml_content, extracted>>

(***************************************************************************)
(* What the network answers                                                *)
(***************************************************************************)

DownloadHref(oid) == "/nonprofits/download-xml?object_id=" \o oid

\* The answers to a lookup request in a batch: the request times out, fails
\* with an error that is no RequestException, is refused, or yields a page
\* with or without a handle filed in 2023.
BatchLookups ==
  {Failure("Timeout"), Failure("Exception"), Page(404, <<>>),
   Page(200, <<Anchor("/nonprofits/organizations/123456789")>>),
   Page(200, <<Anchor(DownloadHref("202312349349300001"))>>)}

\* The answers to a download request in a batch.
BatchDownloads ==
  {Failure("Timeout"), Failure("Exception"), Download(200, DocA), Download(200, Garbage)}

(***************************************************************************)
(* Specifications                                                          *)
(***************************************************************************)

Init ==
  /\ variant \in Variants
  /\ IF variant = "main"
     THEN /\ request \in [method : Methods, auth : AuthHeaders, frontend : BOOLEAN]
          /\ request.frontend = FALSE \/ request.method = "GET"
          /\ secret \in Secrets
          /\ table \in (IF request.method = "POST" THEN Tables("main") ELSE {NoTable})
     ELSE /\ request = NoRequest
          /\ secret = NoSecret
          /\ table \in Tables("app")
  /\ pc = "start"
  /\ futures = <<>>
  /\ all_extracted_data = <<>>
  /\ processed_count = 0
  /\ progress_queue = <<>>
  /\ gui = Gui(variant)
  /\ response = NoOutcome
  /\ final_df = NoFrame
  /\ xml_content = Garbage
  /\ extracted = NotCalled

Next ==
  \/ HandleRequest
  \/ ReadBatch
  \/ SubmitAll(MaxBatch)
  \/ StartTask
  \/ \E i \in DOMAIN futures, resp \in BatchLookups : LookupReturns(i, resp)
  \/ \E i \in DOMAIN futures, resp \in BatchDownloads : DownloadReturns(i, resp)
  \/ \E i \in DOMAIN futures : Collect(i)
  \/ Finish
  \/ \E output_path \in {"", "/home/user/out.csv"} : SaveDialog(output_path)

Spec == Init /\ [][Next]_vars

(***************************************************************************)
(* Direct calls of parse_xml_data                                          *)
(***************************************************************************)

Idle ==
  /\ request = NoRequest
  /\ secret = NoSecret
  /\ table = NoTable
  /\ pc = "idle"
  /\ futures = <<>>
  /\ all_extracted_data = <<>>
  /\ processed_count = 0
  /\ progress_queue = <<>>
  /\ gui = Gui(variant)
  /\ response = NoOutcome
  /\ final_df = NoFrame

InitExtract ==
  /\ variant \in Variants
  /\ xml_content \in Docs
  /\ extracted = NotCalled
  /\ Idle

ParseCall ==
  /\ pc = "idle"
  /\ ~extracted.called
  /\ extracted' = [called |-> TRUE, value |-> parse_xml_data(variant, xml_content)]
  /\ UNCHANGED <<gui, variant, request, secret, table, pc, futures, all_extracted_data,
                 processed_count, progress_queue, response, final_df, xml_content>>

NextExtract == ParseCall

SpecExtract == InitExtract /\ [][NextExtract]_vars


(***************************************************************************)
(* Direct calls of process_single_filing                                   *)
(***************************************************************************)

MaxLinks == 3      \* most <a> elements on a lookup page

\* The <a> elements a lookup page is made of.
Anchors ==
  {Anchor(DownloadHref("202310001")), Anchor(DownloadHref("202320002 ")),
   Anchor(DownloadHref("202410003")), Anchor(DownloadHref("00004")),
   Anchor("/nonprofits/organizations/123456789"), AnchorNoHref}

RECURSIVE Pages(_)
Pages(n) ==
  IF n = 0 THEN {<<>>}
  ELSE Pages(n - 1) \cup {Append(p, a) : p \in {q \in Pages(n - 1) : Len(q) = n - 1}, a \in Anchors}

\* The answers to the lookup request of a single call.
ItemLookups ==
  {Failure("Timeout"), Failure("ConnectionError"), Failure("Exception"),
   Page(404, <<>>), Page(500, <<Anchor(DownloadHref("202310001"))>>)}
  \cup {Page(200, p) : p \in Pages(MaxLinks)}

\* The year cells of the rows of a single call.
ItemYears == {" 2022 ", "20x2", "", "-1", "2_022", "2022.0"}

\* The answers to the download request of a single call.
ItemDownloads ==
  {Failure("Timeout"), Download(200, Garbage)}

InitItem ==
  /\ variant \in Variants
  /\ request = NoRequest
  /\ secret = NoSecret
  /\ \E year \in ItemYears :
       /\ table = MkTable(<<"ein", "year">>, 1, Row("12-3456789", year))
       /\ futures = <<NewFuture(Row("12-3456789", year))>>
  /\ pc = "pool"
  /\ all_extracted_data = <<>>
  /\ processed_count = 0
  /\ progress_queue = <<>>
  /\ gui = Gui(variant)
  /\ response = NoOutcome
  /\ final_df = NoFrame
  /\ xml_content = Garbage
  /\ extracted = NotCalled

NextItem ==
  \/ StartTask
  \/ \E resp \in ItemLookups : LookupReturns(1, resp)
  \/ \E resp \in ItemDownloads : DownloadReturns(1, resp)

SpecItem == InitItem /\ [][NextItem]_vars

(***************************************************************************)
(* Direct calls of process_single_filing: the identifier                   *)
(***************************************************************************)

MaxEinLen == 4     \* longest 'ein' cell

\* The 'ein' cells of up to n characters made of a digit, a hyphen and a space.
RECURSIVE EinCells(_)
EinCells(n) ==
  IF n = 0 THEN {""}
  ELSE EinCells(n - 1)
       \cup {s \o c : s \in {t \in EinCells(n - 1) : Len(t) = n - 1}, c \in {"1", "-", " "}}

InitNormalize ==
  /\ variant \in Variants
  /\ request = NoRequest
  /\ secret = NoSecret
  /\ \E ein \in EinCells(MaxEinLen) :
       /\ table = MkTable(<<"ein", "year">>, 1, Row(ein, "2022"))
       /\ futures = <<NewFuture(Row(ein, "2022"))>>
  /\ pc = "pool"
  /\ all_extracted_data = <<>>
  /\ processed_count = 0
  /\ progress_queue = <<>>
  /\ gui = Gui(variant)
  /\ response = NoOutcome
  /\ final_df = NoFrame
  /\ xml_content = Garbage
  /\ extracted = NotCalled

\* process_single_filing up to its lookup request.
NextNormalize == StartTask

SpecNormalize == InitNormalize /\ [][NextNormalize]_vars

(***************************************************************************)
(* The pool under load                                                     *)
(***************************************************************************)

MaxQueued == 1     \* rows of the batch beyond the number of worker threads

\* A batch that fills the pool: in app.py one row more than there are worker
\* threads, in main.py as many rows as MAX_ROWS admits.
InitPool ==
  /\ variant \in Variants
  /\ IF variant = "main"
     THEN /\ request = [method |-> "POST", auth |-> Header("Basic YWRtaW46czNjcmV0"),
                        frontend |-> FALSE]
          /\ secret = [cached |-> StoredSecret, manager |-> "up"]
          /\ table = MkTable(<<"ein", "year">>, MAX_ROWS_MAIN, RowA)
     ELSE /\ request = NoRequest
          /\ secret = NoSecret
          /\ table = MkTable(<<"ein", "year">>, max_workers + MaxQueued, RowA)
  /\ pc = "start"
  /\ futures = <<>>
  /\ all_extracted_data = <<>>
  /\ processed_count = 0
  /\ progress_queue = <<>>
  /\ gui = Gui(variant)
  /\ response = NoOutcome
  /\ final_df = NoFrame
  /\ xml_content = Garbage
  /\ extracted = NotCalled

\* The executor and its worker threads: every lookup request runs into its
\* time-out (timeout=20).  The loop over as_completed only consumes futures
\* that are done and takes no part in starting a task; its steps are those of
\* Spec and are not repeated here.
NextPool ==
  \/ HandleRequest
  \/ ReadBatch
  \/ SubmitAll(max_workers + MaxQueued)
  \/ StartTask
  \/ \E i \in DOMAIN futures : LookupReturns(i, Failure("Timeout"))

\* The worker threads are scheduled as long as they can take a step, and a
\* request ends at the latest with its time-out.
FairPool == WF_vars(NextPool)

SpecPool == InitPool /\ [][NextPool]_vars /\ FairPool

(***************************************************************************)
(* The window of App: the user, the Tk event loop and the worker threads   *)
(***************************************************************************)

MaxThreads == 2    \* process_data_worker threads started in one behaviour

\* What the file dialog returns: "" when it is cancelled.
Paths == {"", "/home/user/targets.csv"}

\* The CSV files behind the chosen path: a batch of one row, and one that is
\* rejected.
GuiTables == {MkTable(<<"ein", "year">>, 1, RowA), MkTable(<<"ein">>, 1, RowA)}

\* The worker threads that have not yet put "DONE".
Running == {t \in DOMAIN gui.workers : gui.workers[t] # "ended"}

\* App.__init__: no file, the button disabled, the label "Ready.".
InitGui ==
  /\ variant = "app"
  /\ request = NoRequest
  /\ secret = NoSecret
  /\ table = NoTable
  /\ pc = "idle"
  /\ futures = <<>>
  /\ all_extracted_data = <<>>
  /\ processed_count = 0
  /\ progress_queue = <<>>
  /\ response = NoOutcome
  /\ final_df = NoFrame
  /\ xml_content = Garbage
  /\ extracted = NotCalled
  /\ gui = [process_button |-> "disabled", input_file_path |-> "",
            status_label |-> "Ready.", progress |-> NoProgress, workers |-> <<>>]

GuiOnly == UNCHANGED <<variant, request, secret, table, pc, futures, all_extracted_data,
                       processed_count, response, final_df, xml_content, extracted>>

\* A click on the drop zone: the file dialog returns path.
select_file(path) ==
  /\ gui' = IF path # ""
            THEN [gui EXCEPT !.input_file_path = path,
                             !.process_button = "normal",
                             !.status_label = "File selected. Ready to process."]
            ELSE gui
  /\ progress_queue' = progress_queue
  /\ GuiOnly

\* A click on Process Data, which Tk delivers only while the button is not
\* disabled: the button is disabled, the bar reset and a thread started.
start_processing_thread ==
  /\ gui.process_button = "normal"
  /\ Len(gui.workers) < MaxThreads
  /\ gui' = [gui EXCEPT !.process_button = "disabled",
                        !.progress = NoProgress,
                        !.workers = Append(@, "start")]
  /\ progress_queue' = progress_queue
  /\ GuiOnly

\* Thread t runs process_data_worker up to the pool, on the table tab.
WorkerReads(t, tab) ==
  /\ t \in DOMAIN gui.workers
  /\ gui.workers[t] = "start"
  /\ LET reason == ValidateTable("app", tab)
         q == Append(progress_queue, "Reading CSV file...")
     IN IF reason # ""
        THEN /\ progress_queue' = q \o <<"Error: " \o ErrorText(reason), "DONE">>
             /\ gui' = [gui EXCEPT !.workers[t] = "ended"]
        ELSE /\ progress_queue' =
                  Append(q, "Starting processing for " \o ToString(Len(tab.rows))
                            \o " records...")
             /\ gui' = [gui EXCEPT !.workers[t] = "pool"]
  /\ GuiOnly

\* Thread t runs its pool of one request, which ends with a record or without.
WorkerPool(t, found) ==
  /\ t \in DOMAIN gui.workers
  /\ gui.workers[t] = "pool"
  /\ LET f == [ein |-> NormalizeEin(RowA), year |-> NormalizeYear(RowA)]
     IN IF found
        THEN /\ progress_queue' = progress_queue \o
                  <<MsgSuccess(f), "Processing complete. Select a location to save.">>
             /\ gui' = [gui EXCEPT !.workers[t] = "saving", !.progress = Progress(1, 1)]
        ELSE /\ progress_queue' = progress_queue \o
                  <<MsgFailed(f), "Error: " \o ErrorText("empty"), "DONE">>
             /\ gui' = [gui EXCEPT !.workers[t] = "ended", !.progress = Progress(1, 1)]
  /\ GuiOnly

\* Thread t gets the answer of its save dialog and ends.
WorkerSaves(t, output_path) ==
  /\ t \in DOMAIN gui.workers
  /\ gui.workers[t] = "saving"
  /\ progress_queue' = progress_queue \o
       <<IF output_path # "" THEN "Success! File saved."
         ELSE "Save cancelled. Process finished.", "DONE">>
  /\ gui' = [gui EXCEPT !.workers[t] = "ended"]
  /\ GuiOnly

\* The timer of the event loop: one message is taken from the queue, if any.
process_queue ==
  /\ progress_queue # <<>>
  /\ progress_queue' = Tail(progress_queue)
  /\ gui' = IF Head(progress_queue) = "DONE"
            THEN [gui EXCEPT !.process_button = "normal"]
            ELSE [gui EXCEPT !.status_label = Head(progress_queue)]
  /\ GuiOnly

NextGui ==
  \/ \E path \in Paths : select_file(path)
  \/ start_processing_thread
  \/ \E t \in 1..MaxThreads, tab \in GuiTables : WorkerReads(t, tab)
  \/ \E t \in 1..MaxThreads, found \in BOOLEAN : WorkerPool(t, found)
  \/ \E t \in 1..MaxThreads, output_path \in Paths : WorkerSaves(t, output_path)
  \/ process_queue

SpecGui == InitGui /\ [][NextGui]_vars

(***************************************************************************)
(* One run of process_data_worker and the event loop that reads its queue  *)
(***************************************************************************)

\* start_processing_thread has just started the worker.
InitRun == Init /\ variant = "app"

NextRun ==
  \/ ReadBatch
  \/ SubmitAll(MaxBatch)
  \/ StartTask
  \/ \E i \in DOMAIN futures, resp \in BatchLookups : LookupReturns(i, resp)
  \/ \E i \in DOMAIN futures, resp \in BatchDownloads : DownloadReturns(i, resp)
  \/ \E i \in DOMAIN futures : Collect(i)
  \/ Finish
  \/ \E output_path \in Paths : SaveDialog(output_path)
  \/ process_queue

\* process_queue reschedules itself every 100 ms in its finally clause.
SpecRun == InitRun /\ [][NextRun]_vars /\ WF_vars(process_queue)

(***************************************************************************)
(* Properties                                                              *)
(***************************************************************************)

\* The key of the n-th entry of the contractor block of a record.
ContractorColumn(n) ==
  "Contractor_" \o ToString(((n - 1) \div 4) + 1) \o "_"
  \o <<"Name", "Services", "Compensation", "Address">>[((n - 1) % 4) + 1]

\* The keys of a full record: the schema fields in their declared order, then
\* the four keys of each of the five contractor blocks.
RecordKeys(v) ==
  [i \in 1..Len(field_mappings(v)) |-> field_mappings(v)[i].name]
  \o [n \in 1..20 |-> ContractorColumn(n)]

\* C1: every record parse_xml_data returns has the full key set in the fixed
\* order (schema fields, then Contractor_1..5 Name, Services, Compensation,
\* Address), whatever the document holds and however many contractor groups
\* it has; every value is a string.
C1_RecordKeys ==
  (extracted.called /\ extracted.value.kind = "dict") =>
     /\ Keys(extracted.value.items) = RecordKeys(variant)
     /\ \A i \in 1..Len(extracted.value.items) :
          extracted.value.items[i][2] \in STRING

\* A document with more than five contractor groups has been parsed.
C1_Witness ==
  /\ extracted.called
  /\ extracted.value.kind = "dict"
  /\ xml_content = XmlDoc(TRUE, "both", "irs", MAX_CONTRACTORS + 1)

\* A document without contractor groups has been parsed.
C1_WitnessNone ==
  /\ extracted.called
  /\ extracted.value.kind = "dict"
  /\ xml_content = XmlDoc(TRUE, "none", "none", 0)

\* The lookup of the single call has come back with a page.
Resolved(f) == f.resolved.kind # "pending"
PageCameBack(f) == Resolved(f) /\ RequestError(f.lookup) = ""

\* The indices of the handles of the page of f that start with prefix.
Matching(f, prefix) ==
  {k \in 1..Len(ObjectIds(f.lookup.anchors)) :
     StartsWith(ObjectIds(f.lookup.anchors)[k], prefix)}

\* C8: for a lookup page and an integer-parseable year the resolver returns
\* the first handle in page order that starts with str(int(year) + 1), and
\* None when no handle of the page starts with it.
C8_FirstMatch ==
  \A i \in DOMAIN futures :
    (PageCameBack(futures[i]) /\ int(futures[i].year).ok) =>
       LET m == Matching(futures[i], ToString(int(futures[i].year).val + 1))
       IN IF m = {}
          THEN futures[i].resolved = Return(None)
          ELSE futures[i].resolved =
                 Return(Str(ObjectIds(futures[i].lookup.anchors)
                              [CHOOSE k \in m : \A j \in m : k <= j]))

\* The resolver has returned the first of two matching handles of a page.
C8_Witness ==
  \E i \in DOMAIN futures :
    /\ PageCameBack(futures[i])
    /\ int(futures[i].year).ok
    /\ Cardinality(Matching(futures[i], ToString(int(futures[i].year).val + 1))) >= 2
    /\ futures[i].resolved.kind = "return"
    /\ futures[i].resolved.value.kind = "str"

\* The lookup request failed as a request can fail: time-out, transport
\* error or an HTTP status that raise_for_status rejects.
LookupFailed(f) == Resolved(f) /\ RequestError(f.lookup) \in RequestException

\* C9: for a year that is not integer-parseable the resolver's outcome is None
\* whatever the lookup request returns and however it fails, and no download
\* request is sent for the item.
C9_BadYearNotFound ==
  \A i \in DOMAIN futures :
    (/\ ~int(futures[i].year).ok
     /\ PageCameBack(futures[i]) \/ LookupFailed(futures[i])) =>
       /\ futures[i].resolved = Return(None)
       /\ futures[i].downloads = 0

\* C10: in both variants a lookup request that times out, fails in transport
\* or ends in a non-success status makes the resolver return None; it does
\* not raise.
C10_LookupFailureIsNone ==
  \A i \in DOMAIN futures :
    LookupFailed(futures[i]) => futures[i].resolved = Return(None)

\* The contractor columns in lexicographic order: within a block Address,
\* Compensation, Name, Services.
SortedContractorColumn(n) ==
  "Contractor_" \o ToString(((n - 1) \div 4) + 1) \o "_"
  \o <<"Address", "Compensation", "Name", "Services">>[((n - 1) % 4) + 1]

\* The schema fields other than the two leading ones, in declared order.
RemainingFields(v) ==
  Pick([i \in 1..Len(field_mappings(v)) |-> field_mappings(v)[i].name],
       {i \in 1..Len(field_mappings(v)) :
          field_mappings(v)[i].name \notin {"Ein", "OrganizationName"}})

\* C2: in both variants the output table has the columns Ein,
\* OrganizationName, then the Contractor_ columns in lexicographic order, then
\* the remaining schema fields in declared order.
C2_ColumnOrder ==
  final_df # NoFrame =>
    final_df.columns = <<"Ein", "OrganizationName">>
                       \o [n \in 1..20 |-> SortedContractorColumn(n)]
                       \o RemainingFields(variant)

\* main.py has built its output table.
C2_MainTable == variant = "main" /\ final_df # NoFrame

\* The request passed the authentication of main.py (app.py has none).
Authenticated ==
  variant = "main" =>
    /\ request.method = "POST"
    /\ CheckAuth(request.auth, get_basic_auth_credentials(secret).value).status = 0

\* The table has more rows than the cap, or lacks a required column.
OverCap == Len(table.rows) > (IF variant = "app" THEN 250 ELSE 3)
LacksColumn == "ein" \notin Range(table.columns) \/ "year" \notin Range(table.columns)

\* The batch has been accepted and its pool has been left.
BatchRan ==
  /\ pc \in {"saving", "done"}
  /\ Authenticated
  /\ table.readable /\ ~OverCap /\ ~LacksColumn

\* The batch ended in a batch-level error.
BatchError ==
  IF variant = "main" THEN response.status >= 400
  ELSE \E k \in 1..Len(progress_queue) : StartsWith(progress_queue[k], "Error: ")

\* The task of a future ended with a record.
Succeeded(f) == f.st = "done" /\ f.outcome.kind = "return" /\ f.outcome.value.kind = "dict"

\* The task of a future ended without one: it returned None or raised.
Failed(f) == f.st = "done" /\ ~Succeeded(f)

Successes == {i \in DOMAIN futures : Succeeded(futures[i])}

\* C3: whatever the outcome of each item, the loop of the coordinator is never
\* aborted, and when the batch has ended every future has been consumed and
\* the record of every successful item is in the list of collected records.
C3_Isolation ==
  /\ pc # "raised"
  /\ BatchRan =>
       /\ \A i \in DOMAIN futures : futures[i].st = "done" /\ futures[i].collected
       /\ \A i \in Successes : futures[i].outcome.value \in Range(all_extracted_data)
       /\ Len(all_extracted_data) = Cardinality(Successes)

\* A batch has ended in which one item raised out of process_single_filing or
\* met an unexpected error, and the record of its sibling was collected.
C3_Witness ==
  /\ BatchRan
  /\ \E i, j \in DOMAIN futures :
       /\ RequestError(futures[i].lookup) = "Exception"
       /\ Failed(futures[i])
       /\ Succeeded(futures[j])
       /\ futures[j].outcome.value \in Range(all_extracted_data)

\* C5: a batch that has ended without any record ends in the empty-result
\* condition (status 404 in main.py, the error "no data could be extracted" in
\* app.py); no table is returned or saved, and a table that is returned or
\* saved always has a row.
C5_EmptyResult ==
  /\ (BatchRan /\ Successes = {}) =>
       /\ pc = "done"
       /\ ~response.attachment
       /\ final_df = NoFrame
       /\ IF variant = "main"
          THEN /\ response.status = 404
               /\ response.body = "Process finished, but no data could be extracted from the provided filings."
          ELSE /\ response.body = "Error: Process finished, but no data could be extracted."
               /\ response.body \in Range(progress_queue)
               /\ "Success! File saved." \notin Range(progress_queue)
  /\ response.attachment => Len(final_df.rows) >= 1

\* A batch of two rows has ended with both items failed.
C5_Witness ==
  /\ BatchRan
  /\ Len(futures) = 2
  /\ \A i \in DOMAIN futures : Failed(futures[i])
  /\ pc = "done"

\* C6: a batch in which s >= 1 items produced a record ends with a table of
\* exactly s rows, each the record of a successful item, and without a
\* batch-level error.
C6_RowsAreSuccesses ==
  (BatchRan /\ Successes # {}) =>
     /\ Len(final_df.rows) = Cardinality(Successes)
     /\ Len(final_df.rows) <= Len(table.rows)
     /\ \A r \in 1..Len(final_df.rows) :
          \E i \in Successes :
            \A c \in 1..Len(final_df.columns) :
              final_df.rows[r][c] = DictGet(futures[i].outcome.value.items, final_df.columns[c])
     /\ ~BatchError
     /\ variant = "main" => response.status = 200 /\ response.attachment

\* A batch of two rows has ended with one item failed and one row written.
C6_Witness ==
  /\ BatchRan
  /\ Len(futures) = 2
  /\ Cardinality(Successes) = 1
  /\ Len(final_df.rows) = 1

\* The batch was rejected: status 413 or 400 in main.py, the error put on the
\* queue in app.py.
Rejected ==
  /\ pc = "done"
  /\ IF variant = "main" THEN response.status \in {400, 413}
     ELSE /\ StartsWith(response.body, "Error: ")
          /\ progress_queue = <<"Reading CSV file...", response.body, "DONE">>

\* No row has been handed to the pool or processed.
NothingSubmitted ==
  /\ futures = <<>>
  /\ all_extracted_data = <<>>
  /\ processed_count = 0
  /\ final_df = NoFrame

\* C7: a table with more rows than the cap (250 in app.py, 3 in main.py) or
\* without the column ein or year is rejected with one batch-level error
\* before anything is submitted to the pool; a table of exactly cap rows with
\* both columns is not rejected.
C7_RejectedBeforeSubmit ==
  (pc # "start" /\ Authenticated /\ table.readable) =>
     /\ (OverCap \/ LacksColumn) => (Rejected /\ NothingSubmitted)
     /\ (~OverCap /\ ~LacksColumn) => ~Rejected

\* A table of one row more than the cap has been rejected.
C7_Witness ==
  /\ Authenticated
  /\ Len(table.rows) = (IF variant = "app" THEN 251 ELSE 4)
  /\ ~LacksColumn
  /\ Rejected

\* A table of exactly cap rows has been accepted.
C7_WitnessCap ==
  /\ Authenticated
  /\ Len(table.rows) = (IF variant = "app" THEN 250 ELSE 3)
  /\ pc = "validated"

\* C4: at most 10 tasks are in flight in any state; a queued task starts only
\* when fewer than 10 are in flight; and every submitted task is started in
\* the end: from some point on the batch is submitted and no task is queued.
C4_BoundedPool ==
  /\ [](Cardinality(InFlight) <= 10)
  /\ [][\A i \in DOMAIN futures :
          (futures[i].st = "queued" /\ futures'[i].st # "queued")
             => Cardinality(InFlight) < 10]_vars
  /\ <>[](/\ pc \notin {"start", "validated"}
          /\ \A i \in DOMAIN futures : futures[i].st # "queued")

\* Ten tasks are in flight and an eleventh is queued.
C4_Witness ==
  /\ Cardinality(InFlight) = 10
  /\ \E i \in DOMAIN futures : futures[i].st = "queued"

\* The candidates of schema field i that yield a non-empty text in the
\* document under xml_content.
NonEmptyCandidates(i) ==
  {j \in 1..Len(field_mappings(variant)[i].paths) :
     get_text(xml_content.root, field_mappings(variant)[i].paths[j], <<>>) # ""}

\* C11: the value of every schema field is the trimmed text of the first
\* candidate path, in declared order, that yields a non-empty text, and the
\* empty string when no candidate does.
C11_FirstCandidate ==
  (extracted.called /\ extracted.value.kind = "dict") =>
     \A i \in 1..Len(field_mappings(variant)) :
       LET value == DictGet(extracted.value.items, field_mappings(variant)[i].name)
           c == NonEmptyCandidates(i)
       IN /\ value = strip(value)
          /\ IF c = {} THEN value = ""
             ELSE value = get_text(xml_content.root,
                            field_mappings(variant)[i].paths[CHOOSE j \in c : \A k \in c : j <= k],
                            <<>>)

\* A document has been parsed in which both candidates of NetRentalIncomeAmt
\* carry a text, and the field holds the first one; TaxYr holds its trimmed text.
C11_Witness ==
  /\ extracted.called
  /\ extracted.value.kind = "dict"
  /\ xml_content = XmlDoc(TRUE, "both", "irs", 2)
  /\ DictGet(extracted.value.items, "NetRentalIncomeAmt") = "11"
  /\ DictGet(extracted.value.items, "TaxYr") = "2022"

\* A document has been parsed in which only the second candidate of
\* NetRentalIncomeAmt carries a text, and the field holds it.
C11_WitnessSecond ==
  /\ extracted.called
  /\ extracted.value.kind = "dict"
  /\ xml_content = XmlDoc(TRUE, "personal", "irs", 2)
  /\ DictGet(extracted.value.items, "NetRentalIncomeAmt") = "22"

\* The number of contractor groups of the document under xml_content.
GroupCount ==
  LET irs990 == xml_content.root.children[2].children[1].children
  IN Cardinality({c \in 1..Len(irs990) : irs990[c].tag = "ContractorCompensationGrp"})

\* What the j-th contractor group of a document says: its name, its services,
\* its compensation and the non-empty parts of its address.
GroupSays(j) ==
  [Name |-> (IF j % 2 = 1 THEN "P" ELSE "B") \o ToString(j),
   Services |-> "S" \o ToString(j),
   Compensation |-> ToString(100000 + j),
   Address |-> CASE j % 3 = 0 -> ""
                 [] j % 3 = 1 -> ToString(j) \o " Main St, Town, NY, 1000" \o ToString(j)
                 [] j % 3 = 2 -> ToString(j) \o " Main St, NY, 1000" \o ToString(j)]

Blank == [Name |-> "", Services |-> "", Compensation |-> "", Address |-> ""]

\* Block i of the returned record.
BlockOf(i) ==
  [f \in {"Name", "Services", "Compensation", "Address"} |->
     DictGet(extracted.value.items, "Contractor_" \o ToString(i) \o "_" \o f)]

\* C12: with k contractor groups in the document, block i of the record is
\* built from the i-th group for i <= min(k, 5) and is four empty strings for
\* k < i <= 5; later groups are dropped and no key of a sixth block exists.
C12_ContractorBlocks ==
  (extracted.called /\ extracted.value.kind = "dict") =>
     /\ \A i \in 1..5 :
          BlockOf(i) = IF i <= GroupCount THEN GroupSays(i) ELSE Blank
     /\ \A n \in 1..Len(extracted.value.items) :
          StartsWith(extracted.value.items[n][1], "Contractor_") =>
            \E i \in 1..5 : StartsWith(extracted.value.items[n][1],
                                       "Contractor_" \o ToString(i) \o "_")

\* A document with seven contractor groups has been parsed.
C12_Witness ==
  /\ extracted.called
  /\ extracted.value.kind = "dict"
  /\ GroupCount = 7
  /\ BlockOf(5) = GroupSays(5)

\* A document with two contractor groups has been parsed.
C12_WitnessTwo ==
  /\ extracted.called
  /\ extracted.value.kind = "dict"
  /\ GroupCount = 2
  /\ BlockOf(2) = GroupSays(2)
  /\ BlockOf(3) = Blank

\* The request carries the stored shared secret as its credential.
CarriesSecret == request.auth = Header("Basic YWRtaW46czNjcmV0")

\* process_ein_list has answered the request with a 401.
Denied == pc = "done" /\ response.status = 401

\* process_ein_list has dealt with a request other than the preflight.
Handled == variant = "main" /\ pc # "start" /\ request.method # "OPTIONS"

\* C13: a request other than OPTIONS whose credential is missing, malformed
\* or different from the stored secret is answered with a 401 that carries the
\* WWW-Authenticate header.
C13_Challenge ==
  (Handled /\ ~CarriesSecret) =>
     /\ Denied
     /\ "WWW-Authenticate" \in response.headers

\* C14: a GET or POST request whose credential is missing, malformed or
\* different from the stored secret is not served: it is answered with a 401
\* and nothing is submitted to the pool; the OPTIONS preflight is answered
\* with 204 whatever its credential.
C14_AuthBeforeWork ==
  /\ (Handled /\ request.method \in {"GET", "POST"} /\ ~CarriesSecret) =>
        (Denied /\ NothingSubmitted)
  /\ (variant = "main" /\ pc # "start" /\ request.method = "OPTIONS") =>
        (pc = "done" /\ response.status = 204 /\ NothingSubmitted)

\* The secret is not cached and Secret Manager does not answer.
FetchFails == secret.cached = "" /\ secret.manager = "down"

\* C19: while the secret cannot be fetched, get_basic_auth_credentials returns
\* the dummy value and no GET or POST request is accepted, whatever its
\* Authorization header.
C19_NoSecretNoAccess ==
  (Handled /\ request.method \in {"GET", "POST"} /\ FetchFails) =>
     /\ get_basic_auth_credentials(secret).value = "user:password"
     /\ Denied
     /\ NothingSubmitted

\* The events task i puts on the queue in the step at hand.
NewEvents == SubSeq(progress_queue', Len(progress_queue) + 1, Len(progress_queue'))
Emits(prefix) == \E k \in 1..Len(NewEvents) : StartsWith(NewEvents[k], prefix)
EvNoFiling == Emits("Failed: ")
EvDownloadFailed == Emits("Warning: Download failed")
EvUnexpected == Emits("Warning: An unexpected error")
EvSuccess == Emits("Success: ")

\* What the claim expects of the step in which the lookup of task i comes back.
EventsAfterLookup(i, resp) ==
  IF futures'[i].st = "fetching" THEN NewEvents = <<>>
  ELSE IF RequestError(resp) = "Exception"
       THEN EvUnexpected /\ ~EvDownloadFailed /\ ~EvSuccess
  ELSE EvNoFiling /\ ~EvDownloadFailed /\ ~EvUnexpected /\ ~EvSuccess

\* What the claim expects of the step in which the download of task i comes back.
EventsAfterDownload(i, resp) ==
  IF RequestError(resp) \in RequestException
  THEN EvDownloadFailed /\ ~EvUnexpected /\ ~EvSuccess
  ELSE IF futures'[i].outcome.kind = "return" /\ futures'[i].outcome.value.kind = "dict"
  THEN EvSuccess /\ ~EvNoFiling /\ ~EvDownloadFailed /\ ~EvUnexpected
  ELSE EvUnexpected /\ ~EvDownloadFailed /\ ~EvSuccess

\* C16: a request emits the event of the stage at which it ended: no filing
\* found when the resolver yields no handle or the lookup failed, download
\* failed only when the document fetch failed, unexpected error when the
\* extraction failed or an unexpected exception occurred, success exactly when
\* a record is returned.  (The events are those app.py puts on its queue;
\* main.py has no queue and only prints.)
C16_StageEvents ==
  [][variant = "app" =>
       /\ \A i \in DOMAIN futures, resp \in BatchLookups :
            LookupReturns(i, resp) => EventsAfterLookup(i, resp)
       /\ \A i \in DOMAIN futures, resp \in BatchDownloads :
            DownloadReturns(i, resp) => EventsAfterDownload(i, resp)]_vars

\* The same with the two stages left out in which app.py departs from the
\* claim: a lookup that failed as a request, and a failed extraction.
C16_OtherStages ==
  [][variant = "app" =>
       /\ \A i \in DOMAIN futures, resp \in BatchLookups :
            (LookupReturns(i, resp) /\ RequestError(resp) \notin RequestException)
               => EventsAfterLookup(i, resp)
       /\ \A i \in DOMAIN futures, resp \in BatchDownloads :
            (DownloadReturns(i, resp) /\ resp # Download(200, Garbage))
               => EventsAfterDownload(i, resp)]_vars

\* C17: the identifier process_single_filing builds has no hyphen and no
\* leading or trailing white space, and normalising it again changes nothing.
C17_NormalizedEin ==
  \A i \in DOMAIN futures :
    futures[i].st # "queued" =>
       LET ein == futures[i].ein
       IN /\ ~Contains(ein, "-")
          /\ ein = "" \/ (~IsSpace(CharAt(ein, 1)) /\ ~IsSpace(CharAt(ein, Len(ein))))
          /\ NormalizeEin(Row(ein, futures[i].year)) = ein

\* The part of C17 that holds: the identifier has no hyphen.
C17_NoHyphen ==
  \A i \in DOMAIN futures : futures[i].st # "queued" => ~Contains(futures[i].ein, "-")

\* C18: parse_xml_data of app.py and parse_xml_data of main.py return the same
\* result for every document, and the two field tables are the same.
C18_SameEngine ==
  /\ extracted.called =>
       /\ extracted.value = parse_xml_data("main", xml_content)
       /\ extracted.value = parse_xml_data("app", xml_content)
  /\ field_mappings_app = field_mappings_main

\* The two functions agree on every document without the element
\* PrepaidExpensesDefrdChargesGrp, in or outside the namespace.
C18_SameWithoutPrepaid ==
  (extracted.called /\ xml_content \in {XmlDoc(f, r, "none", k) :
       f \in BOOLEAN, r \in RentalKinds, k \in {0, 2}} \cup {Garbage}) =>
     parse_xml_data("app", xml_content) = parse_xml_data("main", xml_content)

\* The futures the loop over as_completed has consumed.
Consumed == {i \in DOMAIN futures : futures[i].collected}

\* The pool of process_data_worker has drained: the with block is left.
Drained == variant = "app" /\ BatchRan /\ pc \in {"saving", "done"}

FullBar == gui.progress.num = 100 * gui.progress.den

C15_EmptyBatch == ~(Drained /\ Len(table.rows) = 0 /\ ~FullBar)

\* C20: at most one process_data_worker thread runs at any time, whatever the
\* user clicks and however the event loop and the worker interleave.
C20_OneWorker == Cardinality(Running) <= 1

\* While the only thread ever started is running, nothing but select_file
\* enables the button.
C20_OnlySelectFile ==
  [][(Len(gui.workers) = 1 /\ Running # {} /\ gui.process_button = "disabled"
        /\ gui'.process_button = "normal")
       => \E path \in Paths : select_file(path)]_vars

\* The number of "DONE" on the queue.
DoneQueued == Cardinality({k \in 1..Len(progress_queue) : progress_queue[k] = "DONE"})

\* The worker put messages on the queue in the step at hand.
Puts == Len(progress_queue') > Len(progress_queue)

\* The event loop took the head of the queue in the step at hand.
Takes == progress_queue # <<>> /\ progress_queue' = Tail(progress_queue)

RunOver == pc = "done" /\ progress_queue = <<>> /\ gui.process_button = "normal"

\* C21: every run of process_data_worker puts exactly one "DONE" on the queue,
\* as its last message (it is put in the step that ends the run, nothing is
\* put after it, and no "DONE" is put before the run ends); with process_queue
\* scheduled again and again the event loop takes the messages in FIFO order,
\* showing each one that is not "DONE", and eventually takes the "DONE", which
\* enables the button again.
C21_DoneLast ==
  /\ [](/\ DoneQueued <= 1
        /\ DoneQueued = 1 => pc = "done" /\ progress_queue[Len(progress_queue)] = "DONE"
        /\ gui.process_button = "normal" => RunOver)
  /\ [][/\ (pc # "done" /\ pc' = "done") =>
             (Puts /\ progress_queue'[Len(progress_queue')] = "DONE" /\ DoneQueued' = 1)
        /\ pc = "done" => ~Puts
        /\ \/ progress_queue' = progress_queue /\ gui'.process_button = gui.process_button
           \/ /\ Puts
              /\ SubSeq(progress_queue', 1, Len(progress_queue)) = progress_queue
              /\ gui'.process_button = gui.process_button
           \/ /\ Takes
              /\ IF Head(progress_queue) = "DONE"
                 THEN gui'.process_button = "normal" /\ progress_queue' = <<>>
                 ELSE /\ gui'.status_label = Head(progress_queue)
                      /\ gui'.process_button = gui.process_button]_vars
  /\ (DoneQueued = 1) ~> RunOver

\* The run ended with a cancelled save dialog, and the event loop has shown its
\* last message and taken its "DONE".
C21_Witness ==
  /\ RunOver
  /\ Len(table.rows) = 2
  /\ gui.status_label = "Save cancelled. Process finished."

\* The same for a run that ended on an unreadable CSV.
C21_WitnessUnreadable == RunOver /\ ~table.readable /\ StartsWith(gui.status_label, "Error: ")
====
